---- MODULE Spec2Model ----
(***************************************************************************)
(* Model of the discussion extractor of google-jules-workflow:             *)
(*   scripts/config-loader.ts          (DEFAULT_CONFIG, deepMerge,         *)
(*                                      loadConfig, getAllPriorityKeywords)*)
(*   scripts/extract-pr-discussion.ts  (detectPriority,                    *)
(*                                      deduplicateComments, formatOutput) *)
(*                                                                         *)
(* Text is modelled by TLA+ strings: Len, \o, SubSeq, Head and Tail are    *)
(* the JavaScript length, +, substring, charAt(0) and slice(1).            *)
(* A rendered Markdown fragment is a sequence of blocks, one block per     *)
(* group of lines that one template of formatOutput emits.                 *)
(***************************************************************************)
EXTENDS Integers, Sequences, FiniteSets, TLC

VARIABLES
    pc,             \* position of the run
    userConfig,     \* content of the user's configuration file ({} if none)
    DEFAULT_CONFIG, \* config-loader.ts module object DEFAULT_CONFIG
    config,         \* extract-pr-discussion.ts: const config = getConfig()
    body,           \* argument of detectPriority
    priority,       \* value returned by detectPriority
    extractedData,  \* argument of formatOutput
    groups,         \* formatOutput: humanReviews ... botIssueComments, as
                    \* deduplicateComments returned them
    sections,       \* formatOutput: const sections
    output,         \* formatOutput: the returned report
    args,           \* main: input, julesFlag, summaryFlag, noClipboardOutput
    world,          \* what Linear, GitHub, git, the clipboard, Gemini and
                    \* the user at the terminal answer during the run
    suppressLogs,   \* extract-pr-discussion.ts: let suppressLogs
    question,       \* the question promptUser is waiting on, NULL if none
    terminal,       \* what the run has asked, printed and copied, in order
    summary,        \* main: let summary
    thrown,         \* message of the error processInput has thrown
    exitCode,       \* exit status of the process, NULL while it runs
    gh,             \* the subprocesses execSync has started and ended, in
                    \* order
    rl,             \* extract-pr-discussion.ts: let rl
    interfaces,     \* readline interfaces created and not closed
    manager,        \* jules-pr-manager: the open pull requests and the two
                    \* work lists computed from them
    comments,       \* argument of deduplicateComments
    deduped,        \* value returned by deduplicateComments
    loads           \* number of calls of loadConfig so far

\* the variables of a run of main
runVars == <<args, world, suppressLogs, question, terminal, summary, thrown,
             exitCode, gh, rl, interfaces, manager, comments, deduped, loads>>

vars == <<pc, userConfig, DEFAULT_CONFIG, config, body, priority,
          extractedData, groups, sections, output, args, world,
          suppressLogs, question, terminal, summary, thrown, exitCode, gh,
          rl, interfaces, manager, comments, deduped, loads>>

\* null and undefined: of a string, and of an object
NULL == "<null>"
NullObject == [isNull |-> TRUE]

(***************************************************************************)
(* Bounds of the model.                                                    *)
(***************************************************************************)
MaxItems == 2       \* most feedback items of one fetched pull request

(***************************************************************************)
(* JavaScript string and array primitives.                                 *)
(***************************************************************************)
Min(a, b) == IF a < b THEN a ELSE b

UpperCaseLetters == "ABCDEFGHIJKLMNOPQRSTUVWXYZ"
LowerCaseLetters == "abcdefghijklmnopqrstuvwxyz"

UpperCaseSet ==
    {SubSeq(UpperCaseLetters, i, i) : i \in 1..Len(UpperCaseLetters)}

LowerCaseOf ==
    [c \in UpperCaseSet |->
        LET i == CHOOSE j \in 1..Len(UpperCaseLetters) :
                     SubSeq(UpperCaseLetters, j, j) = c
        IN  SubSeq(LowerCaseLetters, i, i)]

\* String.prototype.toLowerCase on one character
LowerChar(c) == IF c \in UpperCaseSet THEN LowerCaseOf[c] ELSE c

\* String.prototype.toLowerCase: the characters lo..hi of s, lowercased
RECURSIVE lowerRange(_, _, _)
lowerRange(s, lo, hi) ==
    IF lo > hi THEN ""
    ELSE IF lo = hi THEN LowerChar(SubSeq(s, lo, lo))
    ELSE LET mid == (lo + hi) \div 2
         IN  lowerRange(s, lo, mid) \o lowerRange(s, mid + 1, hi)

toLowerCase(s) == lowerRange(s, 1, Len(s))

\* String.prototype.includes
includes(s, k) ==
    \/ k = ""
    \/ \E i \in 1..(Len(s) - Len(k) + 1) : SubSeq(s, i, i + Len(k) - 1) = k

\* String.prototype.substring(0, n)
substring0(s, n) == SubSeq(s, 1, Min(n, Len(s)))

\* Array.prototype.includes
arrayIncludes(arr, x) == \E i \in 1..Len(arr) : arr[i] = x

\* Array.prototype.some(keyword => s.includes(keyword))
someIncluded(keywords, s) ==
    \E i \in 1..Len(keywords) : includes(s, keywords[i])

\* [...new Set(arr)]: first occurrences, in order
RECURSIVE uniqueValues(_)
uniqueValues(arr) ==
    IF arr = <<>> THEN <<>>
    ELSE LET front == uniqueValues(SubSeq(arr, 1, Len(arr) - 1))
             last == arr[Len(arr)]
         IN  IF arrayIncludes(front, last) THEN front ELSE Append(front, last)

Range(f) == {f[i] : i \in DOMAIN f}

(***************************************************************************)
(* config-loader.ts                                                        *)
(***************************************************************************)
KeywordTierOrderLowFirst == <<"LOW", "MEDIUM", "HIGH">>

\* key order of the object getAllPriorityKeywords returns (Object.entries)
KeywordTierOrder == <<"HIGH", "MEDIUM", "LOW">>
Priorities == {"HIGH", "MEDIUM", "LOW"}

DefaultSectionOrder ==
    <<"header", "summaryHeader", "prOverview", "linearOverview",
      "humanReviews", "humanCodeComments", "humanGeneralComments",
      "botFeedback", "actionItems", "julesRules">>

DefaultBotUsers ==
    <<"copilot-pull-request-reviewer[bot]", "github-actions[bot]",
      "dependabot[bot]", "vercel[bot]", "linear[bot]">>

DefaultJulesRules ==
    <<"You don't have access to project environmental variables.",
      "When publishing the github branch the name MUST BE THE FULL EXACT the FROM branch.">>

\* the value of the object literal DEFAULT_CONFIG (the fields the extractor
\* reads; the emoji strings are left out)
InitialDefaultConfig ==
    [output |->
        [includeBranchNameHeader |-> TRUE,
         includeLinearIdHeader |-> TRUE,
         includeJulesRules |-> TRUE,
         customJulesRules |-> DefaultJulesRules,
         additionalJulesRules |-> <<>>,
         includeUnifiedSummaryHeader |-> TRUE,
         includeMetadata |-> TRUE,
         includeLinearDiscussion |-> TRUE,
         sectionOrder |-> DefaultSectionOrder],
     filtering |->
        [botUsers |-> DefaultBotUsers,
         enableDeduplication |-> TRUE,
         includeBotFeedback |-> TRUE,
         maxBotItemsPerPriority |-> 3,
         includeEmptySections |-> FALSE],
     priority |->
        [customKeywords |-> [HIGH |-> <<>>, MEDIUM |-> <<>>, LOW |-> <<>>],
         defaultPriority |-> "MEDIUM"],
     codeContext |->
        [maxCodeLines |-> 10,
         enableTruncation |-> TRUE,
         showLineNumbers |-> TRUE,
         showFilePaths |-> TRUE,
         groupCommentsByFile |-> TRUE],
     julesMode |->
        [firstCopy |-> "branch_name",
         linearOnlyFirstCopy |-> "linear_id"],
     workflow |-> [enableInteractivePrompts |-> TRUE],
     clipboard |->
        [enabled |-> TRUE,
         fallbackToConsole |-> TRUE,
         showClipboardContent |-> TRUE],
     display |->
        [customHeaders |->
            [humanReviews |-> "**HUMAN REVIEWS**",
             humanCodeComments |-> "**HUMAN INLINE CODE COMMENTS**",
             humanGeneralComments |-> "**HUMAN DISCUSSION COMMENTS**",
             botFeedback |-> "**BOT FEEDBACK SUMMARY**",
             actionItems |-> "**PRIORITIZED ACTION ITEMS**",
             julesRules |-> "**Jules Rules**"]],
     integrations |->
        [linear |->
            [branchNamePattern |-> NULL,
             includeAttachments |-> TRUE,
             includeComments |-> TRUE],
         github |->
            [includePRDescription |-> TRUE,
             includeIssueComments |-> TRUE,
             includeReviewComments |-> TRUE,
             includeReviews |-> TRUE]]]

\* keys of JulesWorkflowConfig whose value is a nested object
ObjectKeys ==
    {"output", "filtering", "priority", "customKeywords", "codeContext",
     "display", "customHeaders", "integrations", "linear", "github",
     "julesMode", "workflow", "clipboard"}

\* keys of JulesWorkflowConfig whose value is an array
ArrayKeys ==
    {"customJulesRules", "additionalJulesRules", "sectionOrder", "botUsers",
     "HIGH", "MEDIUM", "LOW"}

EmptyObject == <<>>

\* a mutant of deepMerge: an array of the source replaces the array of the
\* target
RECURSIVE deepMergeReplacingArrays(_, _)
deepMergeReplacingArrays(target, source) ==
    [key \in (DOMAIN target) \cup (DOMAIN source) |->
        IF key \notin DOMAIN source THEN target[key]
        ELSE IF key \in ObjectKeys
             THEN deepMergeReplacingArrays(
                      IF key \in DOMAIN target THEN target[key]
                                               ELSE EmptyObject,
                      source[key])
        ELSE source[key]]

RECURSIVE deepMerge(_, _)
deepMerge(target, source) ==
    [key \in (DOMAIN target) \cup (DOMAIN source) |->
        IF key \notin DOMAIN source THEN target[key]
        ELSE IF key \in ObjectKeys
             THEN deepMerge(IF key \in DOMAIN target THEN target[key]
                                                     ELSE EmptyObject,
                            source[key])
        ELSE IF key \in ArrayKeys
             THEN IF key \in DOMAIN target
                  THEN uniqueValues(target[key] \o source[key])
                  ELSE source[key]
        ELSE source[key]]

\* loadConfig: const defaultPriorityKeywords
defaultPriorityKeywords ==
    [HIGH |-> <<"security", "breaking", "critical", "urgent", "error",
                "fail", "bug", "broken">>,
     MEDIUM |-> <<"performance", "optimization", "refactor", "improvement",
                  "consider", "should">>,
     LOW |-> <<"nitpick", "style", "formatting", "typo", "minor",
               "suggestion">>]

\* loadConfig: mergedConfig.priority.customKeywords = {...}
withDefaultKeywords(customKeywords) ==
    [HIGH |-> defaultPriorityKeywords.HIGH \o customKeywords.HIGH,
     MEDIUM |-> defaultPriorityKeywords.MEDIUM \o customKeywords.MEDIUM,
     LOW |-> defaultPriorityKeywords.LOW \o customKeywords.LOW]

\* the value loadConfig returns when the module object is defaults and the
\* configuration file holds user
loadConfig(defaults, user) ==
    LET mergedConfig == deepMerge(defaults, user)
    IN  [mergedConfig EXCEPT
            !.priority.customKeywords =
                withDefaultKeywords(mergedConfig.priority.customKeywords)]

\* deepMerge copies one level ({...target}): without a "priority" key in the
\* user's file mergedConfig.priority is the very object
\* DEFAULT_CONFIG.priority, and the assignment of loadConfig writes into it
defaultsAfterLoad(defaults, user) ==
    IF "priority" \in DOMAIN user
    THEN defaults
    ELSE [defaults EXCEPT
            !.priority.customKeywords =
                withDefaultKeywords(defaults.priority.customKeywords)]

getAllPriorityKeywords(cfg) ==
    [HIGH |-> cfg.priority.customKeywords.HIGH,
     MEDIUM |-> cfg.priority.customKeywords.MEDIUM,
     LOW |-> cfg.priority.customKeywords.LOW]

(***************************************************************************)
(* extract-pr-discussion.ts: detectPriority                                *)
(***************************************************************************)
getBotUsers(cfg) == cfg.filtering.botUsers

\* for (const [priority, keywords] of Object.entries(priorityKeywords)):
\* the first tier, from position i of the entry order on, with a keyword
\* the lowercased body includes
RECURSIVE firstMatchingTier(_, _, _)
firstMatchingTier(priorityKeywords, lowerBody, i) ==
    IF i > Len(KeywordTierOrder) THEN NULL
    ELSE IF someIncluded(priorityKeywords[KeywordTierOrder[i]], lowerBody)
         THEN KeywordTierOrder[i]
         ELSE firstMatchingTier(priorityKeywords, lowerBody, i + 1)

detectPriority(cfg, text) ==
    LET lowerBody == toLowerCase(text)
        priorityKeywords == getAllPriorityKeywords(cfg)
        found == firstMatchingTier(priorityKeywords, lowerBody, 1)
    IN  IF found # NULL THEN found ELSE cfg.priority.defaultPriority

(***************************************************************************)
(* extract-pr-discussion.ts: deduplicateComments                           *)
(***************************************************************************)
KeyPrefixLength == 100

\* const key = `${comment.author}:${comment.body.substring(0, 100)}`
commentKeyAuthorOnly(comment) == comment.author

commentKey(comment) ==
    comment.author \o ":" \o substring0(comment.body, KeyPrefixLength)

\* comments.filter(...) with the closure variable seen
RECURSIVE filterUnseen(_, _)
filterUnseen(cs, seen) ==
    IF cs = <<>> THEN <<>>
    ELSE LET key == commentKey(Head(cs))
         IN  IF key \in seen
             THEN filterUnseen(Tail(cs), seen)
             ELSE <<Head(cs)>> \o filterUnseen(Tail(cs), seen \cup {key})

deduplicateCommentsAlways(cfg, cs) == filterUnseen(cs, {})

deduplicateComments(cfg, cs) ==
    IF ~cfg.filtering.enableDeduplication THEN cs ELSE filterUnseen(cs, {})

(***************************************************************************)
(* extract-pr-discussion.ts: formatOutput, PR / dual template              *)
(* A fetched item is a record with the fields of the jq projection of      *)
(* fetchPRData (author, body and state, path or created_at); line and      *)
(* diff_hunk, which only add lines to a rendered comment, are left out.    *)
(***************************************************************************)
\* {...comment, isBot: getBotUsers().includes(comment.author),
\*              priority: detectPriority(comment.body)}
enhanceIgnoringCase(cfg, comment) ==
    [isBot |-> arrayIncludes(getBotUsers(cfg), toLowerCase(comment.author)),
     priority |-> detectPriority(cfg, comment.body)] @@ comment

enhance(cfg, comment) ==
    [isBot |-> arrayIncludes(getBotUsers(cfg), comment.author),
     priority |-> detectPriority(cfg, comment.body)] @@ comment

enhanceAll(cfg, cs) == [i \in 1..Len(cs) |-> enhance(cfg, cs[i])]

IsHuman(c) == ~c.isBot
IsBot(c) == c.isBot

\* a mutant of separateAndDeduplicate: one seen-set for all three groups
humansOf(all) == SelectSeq(all, IsHuman)
botsOf(all) == SelectSeq(all, IsBot)

separateAcrossGroups(cfg, data) ==
    LET allReviews == enhanceAll(cfg, data.reviews)
        allReviewComments == enhanceAll(cfg, data.reviewComments)
        allIssueComments == enhanceAll(cfg, data.issueComments)
        kept == deduplicateComments(cfg,
                    allReviews \o allReviewComments \o allIssueComments)
        Kept(c) == c \in Range(kept)
    IN  [humanReviews |-> SelectSeq(humansOf(allReviews), Kept),
         botReviews |-> SelectSeq(botsOf(allReviews), Kept),
         humanReviewComments |-> SelectSeq(humansOf(allReviewComments), Kept),
         botReviewComments |-> SelectSeq(botsOf(allReviewComments), Kept),
         humanIssueComments |-> SelectSeq(humansOf(allIssueComments), Kept),
         botIssueComments |-> SelectSeq(botsOf(allIssueComments), Kept)]

\* "Process and enhance all comments", "Deduplicate and separate human vs
\* bot comments"
separateAndDeduplicate(cfg, data) ==
    LET allReviews == enhanceAll(cfg, data.reviews)
        allReviewComments == enhanceAll(cfg, data.reviewComments)
        allIssueComments == enhanceAll(cfg, data.issueComments)
    IN  [humanReviews |->
            deduplicateComments(cfg, SelectSeq(allReviews, IsHuman)),
         botReviews |->
            deduplicateComments(cfg, SelectSeq(allReviews, IsBot)),
         humanReviewComments |->
            deduplicateComments(cfg, SelectSeq(allReviewComments, IsHuman)),
         botReviewComments |->
            deduplicateComments(cfg, SelectSeq(allReviewComments, IsBot)),
         humanIssueComments |->
            deduplicateComments(cfg, SelectSeq(allIssueComments, IsHuman)),
         botIssueComments |->
            deduplicateComments(cfg, SelectSeq(allIssueComments, IsBot))]

\* const priorityOrder = { HIGH: 0, MEDIUM: 1, LOW: 2 }
priorityOrder == [HIGH |-> 0, MEDIUM |-> 1, LOW |-> 2]

\* Array.prototype.sort((a, b) => priorityOrder[a.priority] -
\* priorityOrder[b.priority]): a stable insertion of each element behind the
\* elements that do not rank after it
RECURSIVE insertByPriority(_, _)
insertByPriority(sorted, c) ==
    IF sorted = <<>> THEN <<c>>
    ELSE LET last == sorted[Len(sorted)]
         IN  IF priorityOrder[last.priority] - priorityOrder[c.priority] > 0
             THEN Append(insertByPriority(SubSeq(sorted, 1, Len(sorted) - 1),
                                          c), last)
             ELSE Append(sorted, c)

RECURSIVE sortDescending(_)
sortDescending(cs) ==
    IF cs = <<>> THEN <<>>
    ELSE LET rest == sortDescending(Tail(cs))
             c == Head(cs)
             before == SelectSeq(rest, LAMBDA x :
                 priorityOrder[x.priority] > priorityOrder[c.priority])
             after == SelectSeq(rest, LAMBDA x :
                 priorityOrder[x.priority] <= priorityOrder[c.priority])
         IN  before \o <<c>> \o after

RECURSIVE sortByPriority(_)
sortByPriority(cs) ==
    IF cs = <<>> THEN <<>>
    ELSE insertByPriority(sortByPriority(SubSeq(cs, 1, Len(cs) - 1)),
                          cs[Len(cs)])

\* One block of a rendered fragment: the lines one template emits.
\*   section  the entry of sections the lines were written to
\*   kind     which template
\*   index    the number the template prints
\*   count    the second number the template prints
\*   priority, author, text, file   the item values the template prints
Block(sec, kind, index, count, prio, who, text, file) ==
    [section |-> sec, kind |-> kind, index |-> index, count |-> count,
     priority |-> prio, author |-> who, text |-> text, file |-> file]

\* a block whose lines are all whitespace: a heading template with an
\* empty custom header and nothing else on its lines
IsWhitespace(block) == block.kind = "heading" /\ block.text = ""

\* String.prototype.trim of a fragment: "" is modelled by <<>>
trim(fragment) ==
    IF \A i \in 1..Len(fragment) : IsWhitespace(fragment[i])
    THEN <<>> ELSE fragment

\* JavaScript truthiness of an optional string
truthy(v) == v # NULL /\ v # ""

\* prDetails?.head_ref || linearInfo?.branchName || "unknown"
fullBranchNameOf(data) ==
    IF data.prDetails # NullObject /\ truthy(data.prDetails.head_ref)
    THEN data.prDetails.head_ref
    ELSE IF data.linearInfo # NullObject /\ truthy(data.linearInfo.branchName)
         THEN data.linearInfo.branchName
         ELSE "unknown"

headerSection(data) ==
    <<Block("header", "branch", 0, 0, NULL, NULL, fullBranchNameOf(data),
            NULL)>>

summaryHeaderSection ==
    <<Block("summaryHeader", "title", 0, 0, NULL, NULL,
            "**UNIFIED PR/ISSUE DISCUSSION SUMMARY**", NULL)>>

prOverviewSection(data) ==
    <<Block("prOverview", "overview", data.prInfo.number, 0, NULL, NULL,
            data.prDetails.title, NULL)>>
    \o (IF truthy(data.prDetails.body)
        THEN <<Block("prOverview", "description", 0, 0, NULL, NULL,
                     data.prDetails.body, NULL)>>
        ELSE <<>>)

linearOverviewSection(data) ==
    LET linearInfo == data.linearInfo
    IN  <<Block("linearOverview", "overview", 0, 0, NULL, NULL,
                linearInfo.id \o " " \o linearInfo.title, NULL)>>
        \o (IF truthy(linearInfo.description)
            THEN <<Block("linearOverview", "description", 0, 0, NULL, NULL,
                         linearInfo.description, NULL)>>
            ELSE <<>>)
        \o (IF truthy(linearInfo.branchName)
            THEN <<Block("linearOverview", "branch", 0, 0, NULL, NULL,
                         linearInfo.branchName, NULL)>>
            ELSE <<>>)
        \o (IF Len(linearInfo.comments) > 0
            THEN <<Block("linearOverview", "discussion", 0, 0, NULL, NULL,
                         "Linear Discussion:", NULL)>>
                 \o [i \in 1..Len(linearInfo.comments) |->
                        Block("linearOverview", "comment", 0, 0, NULL,
                              linearInfo.comments[i].user.name,
                              linearInfo.comments[i].body, NULL)]
            ELSE <<>>)

\* sortedReviews.forEach((review, index) => ...)
itemBlocks(sec, sorted, showFile) ==
    [i \in 1..Len(sorted) |->
        Block(sec, "item", i, 0, sorted[i].priority, sorted[i].author,
              sorted[i].body,
              IF showFile /\ truthy(sorted[i].path) THEN sorted[i].path
                                                    ELSE NULL)]

plainItemBlocks(sec, sorted) ==
    [i \in 1..Len(sorted) |->
        Block(sec, "item", i, 0, sorted[i].priority, sorted[i].author,
              sorted[i].body, NULL)]

humanReviewsSection(cfg, humanReviews) ==
    <<Block("humanReviews", "heading", 0, 0, NULL, NULL,
            cfg.display.customHeaders.humanReviews, NULL)>>
    \o plainItemBlocks("humanReviews", sortByPriority(humanReviews))

\* const file = comment.path || "General"
fileOf(comment) == IF truthy(comment.path) THEN comment.path ELSE "General"

\* Object.entries(commentsByFile): the files in the order of their first
\* comment, each with its comments in their order
filesOfEachComment(cs) == [i \in 1..Len(cs) |-> fileOf(cs[i])]

filesOf(cs) == uniqueValues([i \in 1..Len(cs) |-> fileOf(cs[i])])
commentsOfFile(cs, file) == SelectSeq(cs, LAMBDA c : fileOf(c) = file)

RECURSIVE fileGroupBlocks(_, _, _)
fileGroupBlocks(cfg, files, cs) ==
    IF files = <<>> THEN <<>>
    ELSE (IF cfg.codeContext.showFilePaths
          THEN <<Block("humanCodeComments", "file", 0, 0, NULL, NULL,
                       Head(files), Head(files))>>
          ELSE <<>>)
         \o plainItemBlocks("humanCodeComments",
                            sortByPriority(commentsOfFile(cs, Head(files))))
         \o fileGroupBlocks(cfg, Tail(files), cs)

humanCodeCommentsSection(cfg, humanReviewComments) ==
    <<Block("humanCodeComments", "heading", 0, 0, NULL, NULL,
            cfg.display.customHeaders.humanCodeComments, NULL)>>
    \o (IF cfg.codeContext.groupCommentsByFile
        THEN fileGroupBlocks(cfg, filesOf(humanReviewComments),
                             humanReviewComments)
        ELSE itemBlocks("humanCodeComments",
                        sortByPriority(humanReviewComments),
                        cfg.codeContext.showFilePaths))

humanGeneralCommentsSection(cfg, humanIssueComments) ==
    <<Block("humanGeneralComments", "heading", 0, 0, NULL, NULL,
            cfg.display.customHeaders.humanGeneralComments, NULL)>>
    \o plainItemBlocks("humanGeneralComments",
                       sortByPriority(humanIssueComments))

SummaryLength == 100

\* `${comment.author}: ${comment.body.substring(0, 100)}...`
summaryOf(comment) ==
    comment.author \o ": " \o substring0(comment.body, SummaryLength)
        \o "..."

\* Array.prototype.slice(0, n), n >= 0
sliceOneMore(arr, n) == SubSeq(arr, 1, Min(n + 1, Len(arr)))

slice0(arr, n) == SubSeq(arr, 1, Min(n, Len(arr)))

\* key order of the object literal botSummary (Object.entries)
BotSummaryOrder == <<"HIGH", "MEDIUM", "LOW">>

\* botSummary[tier]: the bot items of the tier, reviews first, then inline
\* comments, then discussion comments
botItemsOf(g, tier) ==
    SelectSeq(g.botReviews \o g.botReviewComments \o g.botIssueComments,
              LAMBDA c : c.priority = tier)

botTierBlocks(cfg, g, tier) ==
    LET items == botItemsOf(g, tier)
        cap == cfg.filtering.maxBotItemsPerPriority
        shown == slice0(items, cap)
    IN  IF Len(items) > 0
        THEN <<Block("botFeedback", "tier", 0, Len(items), tier, NULL,
                     NULL, NULL)>>
             \o [i \in 1..Len(shown) |->
                    Block("botFeedback", "summary", 0, 0, tier, NULL,
                          summaryOf(shown[i]), NULL)]
             \o (IF Len(items) > cap
                 THEN <<Block("botFeedback", "more", 0, Len(items) - cap,
                              tier, NULL, NULL, NULL)>>
                 ELSE <<>>)
        ELSE <<>>

totalBotCommentsOf(g) ==
    Len(g.botReviews) + Len(g.botReviewComments) + Len(g.botIssueComments)

botFeedbackSection(cfg, g) ==
    <<Block("botFeedback", "countHeading", 0, totalBotCommentsOf(g), NULL,
            NULL, cfg.display.customHeaders.botFeedback, NULL)>>
    \o botTierBlocks(cfg, g, BotSummaryOrder[1])
    \o botTierBlocks(cfg, g, BotSummaryOrder[2])
    \o botTierBlocks(cfg, g, BotSummaryOrder[3])

totalHumanCommentsOf(g) ==
    Len(g.humanReviews) + Len(g.humanReviewComments)
        + Len(g.humanIssueComments)

humanCountWithoutDiscussion(g, tier) ==
    Len(SelectSeq(g.humanReviews \o g.humanReviewComments,
                  LAMBDA c : c.priority = tier))

humanCountOf(g, tier) ==
    Len(SelectSeq(g.humanReviews \o g.humanReviewComments
                      \o g.humanIssueComments,
                  LAMBDA c : c.priority = tier))

actionItemsSection(cfg, g) ==
    <<Block("actionItems", "heading", 0, 0, NULL, NULL,
            cfg.display.customHeaders.actionItems, NULL)>>
    \o (IF humanCountOf(g, "HIGH") > 0
        THEN <<Block("actionItems", "urgent", 0, humanCountOf(g, "HIGH"),
                     "HIGH", NULL, NULL, NULL)>>
        ELSE <<>>)
    \o (IF humanCountOf(g, "MEDIUM") > 0
        THEN <<Block("actionItems", "important", 0,
                     humanCountOf(g, "MEDIUM"), "MEDIUM", NULL, NULL, NULL)>>
        ELSE <<>>)
    \o <<Block("actionItems", "total", totalHumanCommentsOf(g),
               totalBotCommentsOf(g), NULL, NULL, NULL, NULL)>>

ruleBlocks(rules) ==
    [i \in 1..Len(rules) |->
        Block("julesRules", "rule", 0, 0, NULL, NULL, rules[i], NULL)]

\* the rules formatOutput falls back to when customJulesRules is empty
fallbackRules(branchHint) ==
    <<"You don't have access to project environmental variables.",
      "When publishing the github branch the name MUST BE THE FULL EXACT the FROM branch. "
          \o branchHint>>

julesRulesSection(cfg, branchHint) ==
    LET rulesToUse == IF Len(cfg.output.customJulesRules) > 0
                      THEN cfg.output.customJulesRules
                      ELSE fallbackRules(branchHint)
    IN  <<Block("julesRules", "heading", 0, 0, NULL, NULL,
                cfg.display.customHeaders.julesRules, NULL)>>
        \o ruleBlocks(rulesToUse)
        \o ruleBlocks(cfg.output.additionalJulesRules)

\* an object literal built by conditional assignments: the entries whose
\* condition holds
Entry(cond, name, fragment) == IF cond THEN name :> fragment ELSE EmptyObject

\* if (humanReviews.length > 0 && config.integrations.github.includeReviews)
\*   sections.humanReviews = humanReviewsSection
humanReviewsEntryUnguarded(cfg, g) ==
    "humanReviews" :> humanReviewsSection(cfg, g.humanReviews)

humanReviewsEntry(cfg, g) ==
    Entry(Len(g.humanReviews) > 0 /\ cfg.integrations.github.includeReviews,
          "humanReviews", humanReviewsSection(cfg, g.humanReviews))

\* the entries of const sections in the PR / dual template
dualSections(cfg, data, g) ==
    Entry(cfg.output.includeBranchNameHeader, "header", headerSection(data))
    @@ Entry(cfg.output.includeUnifiedSummaryHeader, "summaryHeader",
             summaryHeaderSection)
    @@ Entry(data.prInfo # NullObject /\ data.prDetails # NullObject
                /\ cfg.integrations.github.includePRDescription,
             "prOverview", prOverviewSection(data))
    @@ Entry(data.linearInfo # NullObject
                /\ cfg.integrations.linear.includeComments,
             "linearOverview", linearOverviewSection(data))
    @@ humanReviewsEntry(cfg, g)
    @@ Entry(Len(g.humanReviewComments) > 0
                /\ cfg.integrations.github.includeReviewComments,
             "humanCodeComments",
             humanCodeCommentsSection(cfg, g.humanReviewComments))
    @@ Entry(Len(g.humanIssueComments) > 0
                /\ cfg.integrations.github.includeIssueComments,
             "humanGeneralComments",
             humanGeneralCommentsSection(cfg, g.humanIssueComments))
    @@ Entry(totalBotCommentsOf(g) > 0 /\ cfg.filtering.includeBotFeedback,
             "botFeedback", botFeedbackSection(cfg, g))
    @@ Entry(totalHumanCommentsOf(g) > 0, "actionItems",
             actionItemsSection(cfg, g))
    @@ Entry(cfg.output.includeJulesRules, "julesRules",
             julesRulesSection(cfg, fullBranchNameOf(data)))

\* "Build output according to configured section order"
RECURSIVE assembleReversed(_, _, _)
assembleReversed(cfg, secs, order) ==
    IF order = <<>> THEN <<>>
    ELSE LET sectionName == order[Len(order)]
             rest == SubSeq(order, 1, Len(order) - 1)
         IN  (IF sectionName \in DOMAIN secs /\ secs[sectionName] # <<>>
                 /\ (cfg.filtering.includeEmptySections
                       \/ trim(secs[sectionName]) # <<>>)
              THEN secs[sectionName] ELSE <<>>)
             \o assembleReversed(cfg, secs, rest)

RECURSIVE assemble(_, _, _)
assemble(cfg, secs, order) ==
    IF order = <<>> THEN <<>>
    ELSE LET sectionName == Head(order)
         IN  (IF sectionName \in DOMAIN secs /\ secs[sectionName] # <<>>
                 /\ (cfg.filtering.includeEmptySections
                       \/ trim(secs[sectionName]) # <<>>)
              THEN secs[sectionName] ELSE <<>>)
             \o assemble(cfg, secs, Tail(order))

(***************************************************************************)
(* extract-pr-discussion.ts: formatOutput, Linear-only template            *)
(***************************************************************************)
linearFallbackRules ==
    <<"You don't have access to project environmental variables.",
      "When publishing the github branch the name MUST BE THE FULL EXACT the FROM branch. For Linear-only issues create a branch name.">>

linearRulesSection(cfg) ==
    LET rulesToUse == IF Len(cfg.output.customJulesRules) > 0
                      THEN cfg.output.customJulesRules
                      ELSE linearFallbackRules
    IN  <<Block("julesRules", "heading", 0, 0, NULL, NULL,
                cfg.display.customHeaders.julesRules, NULL)>>
        \o ruleBlocks(rulesToUse)
        \o ruleBlocks(cfg.output.additionalJulesRules)

linearOnlySections(cfg, linearInfo) ==
    Entry(cfg.output.includeLinearIdHeader, "header",
          <<Block("header", "linearId", 0, 0, NULL, NULL, linearInfo.id,
                  NULL)>>)
    @@ ("title" :> <<Block("title", "title", 0, 0, NULL, NULL,
                           linearInfo.title, NULL)>>)
    @@ Entry(truthy(linearInfo.description)
                /\ cfg.integrations.linear.includeComments,
             "description",
             <<Block("description", "description", 0, 0, NULL, NULL,
                     linearInfo.description, NULL)>>)
    @@ Entry(cfg.output.includeMetadata, "metadata",
             <<Block("metadata", "metadata", 0, 0, NULL, NULL,
                     linearInfo.id, NULL)>>)
    @@ Entry(Len(linearInfo.comments) > 0
                /\ cfg.output.includeLinearDiscussion,
             "comments",
             <<Block("comments", "heading", 0, 0, NULL, NULL,
                     "## Comments", NULL)>>
             \o [i \in 1..Len(linearInfo.comments) |->
                    Block("comments", "comment", 0, 0, NULL,
                          linearInfo.comments[i].user.name,
                          linearInfo.comments[i].body, NULL)])
    @@ Entry(cfg.output.includeJulesRules, "julesRules",
             linearRulesSection(cfg))

\* "Build output in the order: header, title, description, metadata,
\* comments, julesRules"
LinearOnlyOrder ==
    <<"header", "title", "description", "metadata", "comments", "julesRules">>

RECURSIVE joinSections(_, _)
joinSections(secs, order) ==
    IF order = <<>> THEN <<>>
    ELSE (IF Head(order) \in DOMAIN secs THEN secs[Head(order)] ELSE <<>>)
         \o joinSections(secs, Tail(order))

(***************************************************************************)
(* formatOutput: the locals groups and sections and the returned output    *)
(***************************************************************************)
formatOutputLinearFirst(cfg, data) ==
    IF data.linearInfo # NullObject
    THEN LET secs == linearOnlySections(cfg, data.linearInfo)
         IN  [groups |-> NullObject, sections |-> secs,
              output |-> joinSections(secs, LinearOnlyOrder)]
    ELSE LET g == separateAndDeduplicate(cfg, data)
             secs == dualSections(cfg, data, g)
         IN  [groups |-> g, sections |-> secs,
              output |-> assemble(cfg, secs, cfg.output.sectionOrder)]

\* the object handed to formatOutput, after the call
formatOutputArgumentEnhanced(cfg, data) ==
    [data EXCEPT !.reviews = enhanceAll(cfg, data.reviews),
                 !.reviewComments = enhanceAll(cfg, data.reviewComments),
                 !.issueComments = enhanceAll(cfg, data.issueComments)]

\* formatOutput reads the fields of its argument: reviews.map(...) builds
\* new items ({...review, isBot, priority}) in a new array, filter returns
\* a new array (which deduplicateComments may return as it is), and the
\* sort calls sort those arrays in place, never a list of the argument
formatOutputArgument(cfg, data) ==
    [data EXCEPT !.reviews = data.reviews,
                 !.reviewComments = data.reviewComments,
                 !.issueComments = data.issueComments]

formatOutput(cfg, data) ==
    IF data.linearInfo # NullObject /\ data.prInfo = NullObject
    THEN LET secs == linearOnlySections(cfg, data.linearInfo)
         IN  [groups |-> NullObject, sections |-> secs,
              output |-> joinSections(secs, LinearOnlyOrder)]
    ELSE LET g == separateAndDeduplicate(cfg, data)
             secs == dualSections(cfg, data, g)
         IN  [groups |-> g, sections |-> secs,
              output |-> assemble(cfg, secs, cfg.output.sectionOrder)]

(***************************************************************************)
(* extract-pr-discussion.ts: the fetches of processInput.  world holds     *)
(* what the services answer during the run:                                *)
(*   linearApiKey  LINEAR_API_KEY is set                                   *)
(*   linearIssue   linear.issue(id) returns the issue TheLinearIssue       *)
(*   linearFailing the sub-resource of the issue whose request fails       *)
(*   attachments   the attachments of the issue                            *)
(*   repoInfo      git config --get remote.origin.url names a repository   *)
(*   branchPR      gh pr list --head finds the pull request                *)
(*   prExists      the pull request ThePR exists                           *)
(*   ghFailing     the gh api call of fetchPRData that fails               *)
(*   pipedFailure  what a failing "gh api ... | cat" does: the pipeline    *)
(*                 ends with the status of cat and execSync returns the    *)
(*                 empty output, or execSync itself throws                 *)
(*   headRef       head branch of the pull request                         *)
(*   answer        what the user types at a question of processInput       *)
(***************************************************************************)
Digits == "0123456789"
DigitSet == {SubSeq(Digits, i, i) : i \in 1..Len(Digits)}
DigitValue ==
    [c \in DigitSet |->
        (CHOOSE j \in 1..Len(Digits) : SubSeq(Digits, j, j) = c) - 1]

charAt(s, i) == IF i >= 1 /\ i <= Len(s) THEN SubSeq(s, i, i) ELSE ""

\* NaN: no number the model parses is negative
NaN == -1

\* the number of characters of s from position i on that are in chars
RECURSIVE runLength(_, _, _)
runLength(s, i, chars) ==
    IF charAt(s, i) \in chars THEN 1 + runLength(s, i + 1, chars) ELSE 0

RECURSIVE digitsValue(_, _, _)
digitsValue(s, i, acc) ==
    IF charAt(s, i) \in DigitSet
    THEN digitsValue(s, i + 1, acc * 10 + DigitValue[charAt(s, i)])
    ELSE acc

\* parseInt of a text without leading blanks or sign
parseInt(s) ==
    IF charAt(s, 1) \in DigitSet THEN digitsValue(s, 1, 0) ELSE NaN

\* String.prototype.indexOf, 1-based, 0 if k does not occur
indexOf(s, k) ==
    IF includes(s, k) /\ k # ""
    THEN CHOOSE i \in 1..(Len(s) - Len(k) + 1) :
            /\ SubSeq(s, i, i + Len(k) - 1) = k
            /\ \A j \in 1..(i - 1) : SubSeq(s, j, j + Len(k) - 1) # k
    ELSE 0

\* /[A-Z]/.test(input)
hasUpperCase(input) == \E i \in 1..Len(input) : charAt(input, i) \in UpperCaseSet

\* branchName.match(/([A-Z]{2,10}-\d+)/): the leftmost match, NULL if none.
\* A match starts at i if 2 to 10 capitals from i on are followed by "-"
\* and a digit; a longer run of capitals matches from its 10 last capitals.
linearIdAt(branchName, i) ==
    LET capitals == runLength(branchName, i, UpperCaseSet)
        from == IF capitals > 10 THEN i + capitals - 10 ELSE i
        letters == Min(capitals, 10)
        digits == runLength(branchName, from + letters + 1, DigitSet)
    IN  IF letters >= 2 /\ charAt(branchName, from + letters) = "-"
           /\ digits >= 1
        THEN SubSeq(branchName, from, from + letters + digits)
        ELSE NULL

linearIdIn(branchName) ==
    IF \E i \in 1..Len(branchName) : linearIdAt(branchName, i) # NULL
    THEN linearIdAt(branchName,
                    CHOOSE i \in 1..Len(branchName) :
                        /\ linearIdAt(branchName, i) # NULL
                        /\ \A j \in 1..(i - 1) :
                              linearIdAt(branchName, j) = NULL)
    ELSE NULL

ThePR == [owner |-> "acme", repo |-> "app", number |-> 7]

ThePRDetails ==
    [title |-> "Fix login", body |-> "Fixes the login form",
     head_ref |-> "feature/AB-12-login", base_ref |-> "main",
     state |-> "open", draft |-> FALSE]

TheLinearIssue ==
    [id |-> "AB-12", title |-> "Login fails",
     description |-> "Users cannot log in",
     comments |-> <<[body |-> "repro attached", user |-> [name |-> "Carol"]]>>,
     branchName |-> "feature/ab-12-login",
     url |-> "https://linear.app/acme/issue/AB-12",
     state |-> "In Progress", priorityLabel |-> "High",
     assignee |-> NULL, team |-> "Core", labels |-> <<>>]

\* getCurrentRepoInfo: NullObject stands for the thrown error
getCurrentRepoInfo(w) ==
    IF w.repoInfo THEN [owner |-> ThePR.owner, repo |-> ThePR.repo]
                  ELSE NullObject

LinearSubResources ==
    {"comments", "state", "assignee", "team", "labels", "attachments"}

\* fetchLinearIssue: null without the API key, without the issue, and when
\* a request inside the outer try fails; a failure of issue.attachments()
\* has its own try and leaves attachments: []
fetchLinearIssue(w, issueId) ==
    IF ~w.linearApiKey THEN NullObject
    ELSE IF ~(w.linearIssue /\ issueId = TheLinearIssue.id) THEN NullObject
    ELSE IF w.linearFailing \in LinearSubResources \ {"attachments"}
         THEN NullObject
    ELSE [attachments |-> IF w.linearFailing = "attachments"
                          THEN <<>> ELSE w.attachments]
         @@ [TheLinearIssue EXCEPT !.id = issueId]

\* url.match(/github\.com\/([^/]+)\/([^/]+)\/pull\/(\d+)/) at the first
\* "github.com/" of the url: owner, repo and number, NullObject if the url
\* does not continue with owner/repo/pull/digits
pullRequestOf(url) ==
    LET host == "github.com/"
        at == indexOf(url, host)
        rest == SubSeq(url, at + Len(host), Len(url))
        slash1 == indexOf(rest, "/")
        afterOwner == SubSeq(rest, slash1 + 1, Len(rest))
        slash2 == indexOf(afterOwner, "/")
        afterRepo == SubSeq(afterOwner, slash2 + 1, Len(afterOwner))
    IN  IF at > 0 /\ slash1 > 1 /\ slash2 > 1
           /\ SubSeq(afterRepo, 1, 5) = "pull/"
           /\ charAt(afterRepo, 6) \in DigitSet
        THEN [owner |-> SubSeq(rest, 1, slash1 - 1),
              repo |-> SubSeq(afterOwner, 1, slash2 - 1),
              number |-> parseInt(SubSeq(afterRepo, 6, Len(afterRepo)))]
        ELSE NullObject

\* findPRFromLinearAttachments: the pull request of the first attachment
\* whose url names one
findPRFromLinearAttachments(linearInfo) ==
    LET named == SelectSeq(linearInfo.attachments,
                           LAMBDA a : pullRequestOf(a.url) # NullObject)
    IN  IF Len(named) > 0 THEN pullRequestOf(named[1].url) ELSE NullObject

\* findPRFromBranch: every error is ignored
findPRFromBranch(w, branchName) ==
    IF getCurrentRepoInfo(w) # NullObject /\ w.branchPR
    THEN [owner |-> ThePR.owner, repo |-> ThePR.repo,
          number |-> ThePR.number, branch |-> branchName]
    ELSE NullObject

\* what the three list calls and the details call of fetchPRData return
\* when they succeed
WorldReviews ==
    <<[author |-> "alice", body |-> "security hole", state |-> "COMMENTED"]>>
WorldReviewComments ==
    <<[author |-> "alice", body |-> "typo", path |-> "a.ts"]>>
WorldIssueComments ==
    <<[author |-> "dependabot[bot]", body |-> "bump lodash",
       created_at |-> "2025-06-01T10:00:00Z"]>>

PipedCalls == {"reviews", "comments", "issueComments"}

\* fetchPRData: null when the existence check fails or a call throws inside
\* Promise.all (the outer catch); a failing piped call that returns the
\* empty output gives the empty list
fetchPRData(w, prInfo) ==
    IF ~(w.prExists /\ prInfo.number = ThePR.number) THEN NullObject
    ELSE IF w.ghFailing = "details" THEN NullObject
    ELSE IF w.ghFailing \in PipedCalls /\ w.pipedFailure = "throws"
         THEN NullObject
    ELSE [prDetails |-> [ThePRDetails EXCEPT !.head_ref = w.headRef],
          reviews |-> IF w.ghFailing = "reviews" THEN <<>>
                                                 ELSE WorldReviews,
          reviewComments |-> IF w.ghFailing = "comments"
                             THEN <<>> ELSE WorldReviewComments,
          issueComments |-> IF w.ghFailing = "issueComments"
                            THEN <<>> ELSE WorldIssueComments]

(***************************************************************************)
(* extract-pr-discussion.ts: processInput, up to its question and after    *)
(* the answer                                                              *)
(***************************************************************************)
\* processInput: const extractedData = {prInfo: null, linearInfo: null,
\* reviews: [], reviewComments: [], issueComments: []}
NoData ==
    [prInfo |-> NullObject, linearInfo |-> NullObject, prDetails |-> NullObject,
     reviews |-> <<>>, reviewComments |-> <<>>, issueComments |-> <<>>]

\* extractedData.prDetails = prData.prDetails; ... .issueComments = ...
withPRData(data, prData) ==
    [data EXCEPT !.prDetails = prData.prDetails,
                 !.reviews = prData.reviews,
                 !.reviewComments = prData.reviewComments,
                 !.issueComments = prData.issueComments]

\* if (!suppressLogs && config.workflow.enableInteractivePrompts)
mayPromptWhenEnabled(cfg, quiet) == cfg.workflow.enableInteractivePrompts

mayPrompt(cfg, quiet) == ~quiet /\ cfg.workflow.enableInteractivePrompts

\* the branch if (isLinearId)
linearFirst(cfg, quiet, w, input) ==
    LET linearInfo == fetchLinearIssue(w, input)
        attached == findPRFromLinearAttachments(linearInfo)
        prInfo == IF attached = NullObject /\ truthy(linearInfo.branchName)
                  THEN findPRFromBranch(w, linearInfo.branchName)
                  ELSE attached
        prData == fetchPRData(w, prInfo)
        found == [NoData EXCEPT !.linearInfo = linearInfo]
    IN  IF linearInfo = NullObject
        THEN [data |-> NoData, foundSomething |-> FALSE, asks |-> NULL]
        ELSE IF prInfo # NullObject
        THEN [data |-> IF prData # NullObject
                       THEN withPRData([found EXCEPT !.prInfo = prInfo],
                                       prData)
                       ELSE [found EXCEPT !.prInfo = prInfo],
              foundSomething |-> TRUE, asks |-> NULL]
        ELSE [data |-> found, foundSomething |-> TRUE,
              asks |-> IF mayPrompt(cfg, quiet) THEN "prNumber" ELSE NULL]

\* the else branch: the input is taken as a pull request number
pullRequestFirst(cfg, quiet, w, input) ==
    LET repoInfo == getCurrentRepoInfo(w)
        prInfo == [owner |-> repoInfo.owner, repo |-> repoInfo.repo,
                   number |-> parseInt(input)]
        prData == fetchPRData(w, prInfo)
        branchName == prData.prDetails.head_ref
        linearId == IF truthy(branchName) THEN linearIdIn(branchName)
                                          ELSE NULL
        linearInfo == IF linearId # NULL THEN fetchLinearIssue(w, linearId)
                                         ELSE NullObject
        found == withPRData([NoData EXCEPT !.prInfo = prInfo], prData)
    IN  IF repoInfo = NullObject \/ prData = NullObject
        THEN [data |-> NoData, foundSomething |-> FALSE, asks |-> NULL]
        ELSE [data |-> [found EXCEPT !.linearInfo = linearInfo],
              foundSomething |-> TRUE,
              asks |-> IF linearInfo = NullObject /\ mayPrompt(cfg, quiet)
                       THEN "linearId" ELSE NULL]

\* processInput up to its question, or to its end if it asks none
processInputUntilPrompt(cfg, quiet, w, input) ==
    IF hasUpperCase(input) THEN linearFirst(cfg, quiet, w, input)
                           ELSE pullRequestFirst(cfg, quiet, w, input)

\* processInput from the answer to its question on
processInputAfterAnswer(w, data, asked, answer) ==
    IF answer = "" THEN data
    ELSE IF asked = "prNumber"
    THEN LET repoInfo == getCurrentRepoInfo(w)
             prInfo == [owner |-> repoInfo.owner, repo |-> repoInfo.repo,
                        number |-> parseInt(answer)]
             prData == fetchPRData(w, prInfo)
         IN  IF repoInfo = NullObject \/ prData = NullObject THEN data
             ELSE withPRData([data EXCEPT !.prInfo = prInfo], prData)
    ELSE LET linearInfo == fetchLinearIssue(w, answer)
         IN  IF linearInfo = NullObject THEN data
             ELSE [data EXCEPT !.linearInfo = linearInfo]

\* throw new Error(`Could not find data for ${input}. Make sure ...`)
notFoundMessageWithoutInput(input) ==
    "Could not find data. Make sure the ID/number is correct and you have access."

notFoundMessage(input) ==
    "Could not find data for " \o input
        \o ". Make sure the ID/number is correct and you have access."

(***************************************************************************)
(* The configuration files of the model.                                   *)
(***************************************************************************)
NoUserConfig == EmptyObject

ClassifierUserConfigs ==
    { NoUserConfig,
      [priority |-> [customKeywords |->
            [HIGH |-> <<"deployment">>, LOW |-> <<"cleanup">>],
         defaultPriority |-> "LOW"]],
      [priority |-> [customKeywords |->
            [HIGH |-> <<"TODO">>, MEDIUM |-> <<"Docs">>]]],
      [priority |-> [defaultPriority |-> "HIGH"]],
      [priority |-> [customKeywords |-> [MEDIUM |-> <<"should", "typo">>]]],
      [priority |-> [customKeywords |-> [LOW |-> <<"nit", "WIP">>]]],
      [output |-> [includeJulesRules |-> FALSE]],
      [filtering |-> [botUsers |-> <<"vercel[bot]", "renovate[bot]">>,
                      maxBotItemsPerPriority |-> 1],
       priority |-> [customKeywords |->
            [HIGH |-> <<"blocker", "blocker">>]]] }

Bodies ==
    { "", "lgtm", "typo", "Typo: SHOULD fix", "minor security typo",
      "consider style", "URGENT", "debug output", "todo later", "TODO later",
      "docs", "Docs please", "cleanup the deployment", "Cleanup",
      "wip", "WIP: nit", "Performance BUG", "please refactor" }

FormatUserConfigs ==
    { NoUserConfig,
      [output |-> [sectionOrder |-> <<"actionItems", "header">>],
       filtering |-> [botUsers |-> <<"Dependabot[bot]", "linear[bot]">>]],
      [output |-> [sectionOrder |->
            <<"julesRules", "footer", "botFeedback", "humanReviews">>],
       filtering |-> [enableDeduplication |-> FALSE]],
      [filtering |-> [includeEmptySections |-> TRUE,
                      maxBotItemsPerPriority |-> 0]],
      [codeContext |-> [groupCommentsByFile |-> FALSE],
       filtering |-> [maxBotItemsPerPriority |-> 2]],
      [codeContext |-> [showFilePaths |-> FALSE],
       filtering |-> [maxBotItemsPerPriority |-> 1],
       integrations |-> [github |-> [includeReviews |-> FALSE]],
       output |-> [includeBranchNameHeader |-> FALSE]],
      [output |-> [customJulesRules |-> <<"Always use TypeScript strict mode">>,
                   additionalJulesRules |-> <<"Run tests before pushing">>]] }

(***************************************************************************)
(* The data processInput hands to formatOutput.                            *)
(***************************************************************************)
Human == "alice"
Bot == "dependabot[bot]"
\* not an entry of the default botUsers: it differs from one in letter case
OtherCase == "Dependabot[bot]"

\* 100 characters without a keyword
LongPrefix ==
    "0123456789012345678901234567890123456789012345678901234567890123456789012345678901234567890123456789"

ReviewCandidates ==
    { [author |-> Human, body |-> "security hole", state |-> "COMMENTED"],
      [author |-> Human, body |-> "typo", state |-> "COMMENTED"],
      [author |-> Human, body |-> "typo", state |-> "APPROVED"],
      [author |-> Bot, body |-> "typo", state |-> "COMMENTED"],
      [author |-> OtherCase, body |-> "typo", state |-> "COMMENTED"] }

ReviewCommentCandidates ==
    { [author |-> Human, body |-> b, path |-> "a.ts"] :
        b \in {"security hole", "typo", "looks odd"} }
    \cup { [author |-> Human, body |-> "typo", path |-> "b.ts"],
           [author |-> Human, body |-> "typo", path |-> NULL],
           [author |-> Bot, body |-> "typo", path |-> "a.ts"] }

IssueCommentCandidates ==
    { [author |-> a, body |-> b, created_at |-> "2025-06-01T10:00:00Z"] :
        a \in {Human, Bot},
        b \in {LongPrefix \o " security", LongPrefix \o " typo"} }

RECURSIVE SeqsOfLength(_, _)
SeqsOfLength(S, n) ==
    IF n = 0 THEN {<<>>}
    ELSE {Append(front, x) : front \in SeqsOfLength(S, n - 1), x \in S}

FetchedLists ==
    UNION { { [reviews |-> r, reviewComments |-> rc, issueComments |-> ic] :
                r \in SeqsOfLength(ReviewCandidates, i),
                rc \in SeqsOfLength(ReviewCommentCandidates, j),
                ic \in SeqsOfLength(IssueCommentCandidates, k) } :
            <<i, j, k>> \in { t \in (0..MaxItems) \X (0..MaxItems)
                                        \X (0..MaxItems) :
                                  t[1] + t[2] + t[3] <= MaxItems } }

\* what processInput can return: a fetched PR with or without its Linear
\* issue, a Linear issue alone, a Linear issue with a PR reference whose
\* fetch failed
ExtractedDataSet ==
    { [prInfo |-> ThePR, linearInfo |-> NullObject,
       prDetails |-> ThePRDetails,
       reviews |-> f.reviews, reviewComments |-> f.reviewComments,
       issueComments |-> f.issueComments] : f \in FetchedLists }
    \cup { [prInfo |-> ThePR, linearInfo |-> TheLinearIssue,
            prDetails |-> ThePRDetails,
            reviews |-> r, reviewComments |-> <<>>, issueComments |-> <<>>] :
             r \in SeqsOfLength(ReviewCandidates, 0)
                     \cup SeqsOfLength(ReviewCandidates, 1) }
    \cup { [NoData EXCEPT !.linearInfo = TheLinearIssue],
           [NoData EXCEPT !.linearInfo = TheLinearIssue, !.prInfo = ThePR] }

(***************************************************************************)
(* Operations.                                                             *)
(***************************************************************************)
InitWith(userConfigs) ==
    /\ pc = "start"
    /\ userConfig \in userConfigs
    /\ DEFAULT_CONFIG = InitialDefaultConfig
    /\ config = NullObject
    /\ body = NULL
    /\ priority = NULL
    /\ extractedData = NoData
    /\ groups = NullObject
    /\ sections = EmptyObject
    /\ output = <<>>
    /\ args = NullObject
    /\ world = NullObject
    /\ suppressLogs = FALSE
    /\ question = NULL
    /\ terminal = <<>>
    /\ summary = ""
    /\ thrown = NULL
    /\ exitCode = NULL
    /\ gh = <<>>
    /\ rl = NULL
    /\ interfaces = 0
    /\ manager = NullObject
    /\ comments = <<>>
    /\ deduped = <<>>
    /\ loads = 0

\* extract-pr-discussion.ts, module initialisation: const config = getConfig()
LoadConfig ==
    /\ pc = "start"
    /\ config' = loadConfig(DEFAULT_CONFIG, userConfig)
    /\ DEFAULT_CONFIG' = defaultsAfterLoad(DEFAULT_CONFIG, userConfig)
    /\ pc' = "loaded"
    /\ UNCHANGED <<userConfig, body, priority, extractedData, groups,
                   sections, output>>
    /\ UNCHANGED runVars

\* a call detectPriority(b)
DetectPriority ==
    /\ pc = "loaded"
    /\ \E b \in Bodies :
          /\ body' = b
          /\ priority' = detectPriority(config, b)
    /\ pc' = "classified"
    /\ UNCHANGED <<userConfig, DEFAULT_CONFIG, config, extractedData,
                   groups, sections, output>>
    /\ UNCHANGED runVars

InitClassify == InitWith(ClassifierUserConfigs)
NextClassify == LoadConfig \/ DetectPriority
SpecClassify == InitClassify /\ [][NextClassify]_vars

\* processInput returns the extracted data
ProcessInput ==
    /\ pc = "loaded"
    /\ extractedData' \in ExtractedDataSet
    /\ pc' = "extracted"
    /\ UNCHANGED <<userConfig, DEFAULT_CONFIG, config, body, priority,
                   groups, sections, output>>
    /\ UNCHANGED runVars

\* const formattedOutput = formatOutput(extractedData)
FormatOutput ==
    /\ pc = "extracted"
    /\ LET result == formatOutput(config, extractedData)
       IN  /\ groups' = result.groups
           /\ sections' = result.sections
           /\ output' = result.output
    /\ extractedData' = formatOutputArgument(config, extractedData)
    /\ pc' = "formatted"
    /\ UNCHANGED <<userConfig, DEFAULT_CONFIG, config, body, priority>>
    /\ UNCHANGED runVars

Init == InitWith(FormatUserConfigs)
Next == LoadConfig \/ ProcessInput \/ FormatOutput
Spec == Init /\ [][Next]_vars

(***************************************************************************)
(* config-loader.ts: reloadConfig.  The module object DEFAULT_CONFIG lives *)
(* as long as the process, every load merges the file over it.             *)
(***************************************************************************)
MaxReloads == 2

\* reloadConfig(): configInstance = null; return getConfig()
ReloadConfig ==
    /\ pc = "loaded"
    /\ loads < MaxReloads
    /\ config' = loadConfig(DEFAULT_CONFIG, userConfig)
    /\ DEFAULT_CONFIG' = defaultsAfterLoad(DEFAULT_CONFIG, userConfig)
    /\ loads' = loads + 1
    /\ UNCHANGED <<pc, userConfig, body, priority, extractedData, groups,
                   sections, output, args, world, suppressLogs, question,
                   terminal, summary, thrown, exitCode, gh, rl, interfaces,
                   manager, comments, deduped>>

InitReload == InitWith(ClassifierUserConfigs)
NextReload == LoadConfig \/ ReloadConfig \/ DetectPriority
SpecReload == InitReload /\ [][NextReload]_vars

(***************************************************************************)
(* Calls of deduplicateComments, on a list and on its own result.          *)
(***************************************************************************)
MaxComments == 3

\* comments with equal keys that differ behind the first 100 characters of
\* the body, and comments of different authors with equal keys
DedupCandidates ==
    { [author |-> "alice", body |-> "typo"],
      [author |-> "bob", body |-> "typo"],
      [author |-> "alice", body |-> LongPrefix \o "first"],
      [author |-> "alice", body |-> LongPrefix \o "second"],
      [author |-> "alice:typo", body |-> "fix"],
      [author |-> "alice", body |-> "typo:fix"] }

RECURSIVE ListsUpTo(_, _)
ListsUpTo(S, n) ==
    IF n = 0 THEN {<<>>}
    ELSE LET shorter == ListsUpTo(S, n - 1)
         IN  shorter \cup {Append(l, x) : l \in shorter, x \in S}

DedupUserConfigs ==
    {NoUserConfig, [filtering |-> [enableDeduplication |-> FALSE]]}

\* a call deduplicateComments(comments)
Deduplicate ==
    /\ pc = "loaded"
    /\ deduped' = deduplicateComments(config, comments)
    /\ pc' = "deduplicated"
    /\ UNCHANGED <<userConfig, DEFAULT_CONFIG, config, body, priority,
                   extractedData, groups, sections, output, args, world,
                   suppressLogs, question, terminal, summary, thrown,
                   exitCode, gh, rl, interfaces, manager, comments, loads>>

\* a call of deduplicateComments on the list the call before returned
DeduplicateAgain ==
    /\ pc = "deduplicated"
    /\ comments' = deduped
    /\ deduped' = deduplicateComments(config, deduped)
    /\ pc' = "deduplicatedAgain"
    /\ UNCHANGED <<userConfig, DEFAULT_CONFIG, config, body, priority,
                   extractedData, groups, sections, output, args, world,
                   suppressLogs, question, terminal, summary, thrown,
                   exitCode, gh, rl, interfaces, manager, loads>>

InitDedup ==
    /\ pc = "start"
    /\ userConfig \in DedupUserConfigs
    /\ DEFAULT_CONFIG = InitialDefaultConfig
    /\ config = NullObject
    /\ body = NULL
    /\ priority = NULL
    /\ extractedData = NoData
    /\ groups = NullObject
    /\ sections = EmptyObject
    /\ output = <<>>
    /\ args = NullObject
    /\ world = NullObject
    /\ suppressLogs = FALSE
    /\ question = NULL
    /\ terminal = <<>>
    /\ summary = ""
    /\ thrown = NULL
    /\ exitCode = NULL
    /\ gh = <<>>
    /\ rl = NULL
    /\ interfaces = 0
    /\ manager = NullObject
    /\ comments \in ListsUpTo(DedupCandidates, MaxComments)
    /\ deduped = <<>>
    /\ loads = 0

NextDedup == LoadConfig \/ Deduplicate \/ DeduplicateAgain
SpecDedup == InitDedup /\ [][NextDedup]_vars

(***************************************************************************)
(* A run of main.  The program is started with an input and flags, with    *)
(* --help, or with an empty command line.                                  *)
(***************************************************************************)
DocAttachment == [url |-> "https://example.com/design", title |-> "Design"]
PRAttachment ==
    [url |-> "https://github.com/acme/app/pull/7", title |-> "Fix login"]

\* everything works: the issue has its pull request attached, the branch of
\* the pull request names the issue
HappyWorld ==
    [linearApiKey |-> TRUE, linearIssue |-> TRUE, linearFailing |-> "none",
     attachments |-> <<DocAttachment, PRAttachment>>,
     repoInfo |-> TRUE, branchPR |-> TRUE, prExists |-> TRUE,
     ghFailing |-> "none", pipedFailure |-> "empty",
     headRef |-> "feature/AB-12-login",
     answer |-> "",
     clipboardFailsAt |-> 0, geminiApiKey |-> TRUE, llm |-> "text"]

ResolutionFields ==
    {"linearApiKey", "linearIssue", "linearFailing", "attachments",
     "repoInfo", "branchPR", "prExists", "ghFailing", "headRef"}

Deviations(w) ==
    Cardinality({f \in ResolutionFields : w[f] # HappyWorld[f]})

MaxDeviations == 2

Answers == {"", "7", "AB-12"}

\* the worlds in which at most MaxDeviations of the services differ from
\* HappyWorld
ResolutionWorlds ==
    { w \in [linearApiKey : BOOLEAN, linearIssue : BOOLEAN,
             linearFailing : LinearSubResources \cup {"none"},
             attachments : {<<>>, <<DocAttachment>>,
                            <<DocAttachment, PRAttachment>>},
             repoInfo : BOOLEAN, branchPR : BOOLEAN, prExists : BOOLEAN,
             ghFailing : PipedCalls \cup {"details", "none"},
             pipedFailure : {"empty", "throws"},
             headRef : {"feature/AB-12-login", "fix-login"},
             answer : Answers,
             clipboardFailsAt : {0}, geminiApiKey : {TRUE},
             llm : {"text"}] :
        /\ Deviations(w) <= MaxDeviations
        /\ w.pipedFailure = "throws" => w.ghFailing \in PipedCalls }

Inputs == {"AB-12", "7", "x9"}

ResolveUserConfigs ==
    { NoUserConfig, [workflow |-> [enableInteractivePrompts |-> FALSE]] }

\* an event of the terminal and the clipboard: a question or prompt, an
\* answer, a console.log or a clipboard write of an item (what), a failed
\* clipboard write, a reported error
Delivered(kind, what, text) == [kind |-> kind, what |-> what, text |-> text]
Event(kind, what) == Delivered(kind, what, NULL)

\* function createReadlineInterface: if (!rl) rl = createInterface(...)
createReadlineInterface(r, n) ==
    IF r = NULL THEN [rl |-> "interface", interfaces |-> n + 1]
                ELSE [rl |-> r, interfaces |-> n]

closeReadlineInterfaceLeaking(r, n) == [rl |-> NULL, interfaces |-> n]

\* function closeReadlineInterface: if (rl) { rl.close(); rl = null }
closeReadlineInterface(r, n) ==
    IF r # NULL THEN [rl |-> NULL, interfaces |-> n - 1]
                ELSE [rl |-> r, interfaces |-> n]

\* what a step of main does to the readline interface: a step that ends at
\* a promptUser creates the interface if there is none, a step that ends
\* main (a return, or process.exit) calls closeReadlineInterface first
Readline(next) ==
    LET after == IF next \in {"asking", "awaitEnter", "awaitEnterFallback"}
                 THEN createReadlineInterface(rl, interfaces)
                 ELSE IF next = "exited"
                      THEN closeReadlineInterface(rl, interfaces)
                      ELSE [rl |-> rl, interfaces |-> interfaces]
    IN  /\ rl' = after.rl
        /\ interfaces' = after.interfaces

\* main: catch (error) { logError(`Script failed: ${error}`);
\* closeReadlineInterface(); process.exit(1) }: what the terminal shows
scriptFailed(quiet) ==
    IF quiet THEN <<>> ELSE <<Event("error", "Script failed")>>

\* main, from the parsing of the arguments to the call of processInput
Main ==
    /\ pc = "loaded"
    /\ args.input \notin {"--help", NULL}
    /\ suppressLogs' = args.noClipboardOutput
    /\ pc' = "processInput"
    /\ UNCHANGED <<userConfig, DEFAULT_CONFIG, config, body, priority,
                   extractedData, groups, sections, output, args, world, gh, rl,
                   interfaces, manager, comments,
                   deduped, loads,
                   question, terminal, summary, thrown, exitCode>>

\* main with --help: the usage text, closeReadlineInterface, process.exit(0)
MainHelp ==
    /\ pc = "loaded"
    /\ args.input = "--help"
    /\ terminal' = Append(terminal, Event("console", "help"))
    /\ exitCode' = 0
    /\ pc' = "exited"
    /\ Readline(pc')
    /\ UNCHANGED <<userConfig, DEFAULT_CONFIG, config, body, priority,
                   extractedData, groups, sections, output, args, world, gh,
                   manager, comments,
                   deduped, loads, suppressLogs, question, summary, thrown>>

\* main without arguments: the usage errors, closeReadlineInterface,
\* process.exit(1)
MainUsage ==
    /\ pc = "loaded"
    /\ args.input = NULL
    /\ terminal' = Append(terminal, Event("error", "Usage"))
    /\ exitCode' = 1
    /\ pc' = "exited"
    /\ Readline(pc')
    /\ UNCHANGED <<userConfig, DEFAULT_CONFIG, config, body, priority,
                   extractedData, groups, sections, output, args, world, gh,
                   manager, comments,
                   deduped, loads, suppressLogs, question, summary, thrown>>

\* processInput up to its question: it asks, returns, or throws into the
\* catch of main
ProcessInputBegin ==
    /\ pc = "processInput"
    /\ LET r == processInputUntilPrompt(config, suppressLogs, world,
                                        args.input)
       IN  IF r.asks # NULL
           THEN /\ extractedData' = r.data
                /\ question' = r.asks
                /\ terminal' = Append(terminal, Event("question", r.asks))
                /\ pc' = "asking"
                /\ UNCHANGED <<thrown, exitCode>>
           ELSE IF r.foundSomething
           THEN /\ extractedData' = r.data
                /\ pc' = "extracted"
                /\ UNCHANGED <<question, terminal, thrown, exitCode>>
           ELSE /\ thrown' = notFoundMessage(args.input)
                /\ terminal' = terminal \o scriptFailed(suppressLogs)
                /\ exitCode' = 1
                /\ pc' = "exited"
                /\ UNCHANGED <<extractedData, question>>
    /\ Readline(pc')
    /\ UNCHANGED <<userConfig, DEFAULT_CONFIG, config, body, priority,
                   groups, sections, output, args, world, gh, manager, comments,
                   deduped, loads, suppressLogs,
                   summary>>

\* the user answers the question; processInput runs to its return
ProcessInputAnswer ==
    /\ pc = "asking"
    /\ extractedData' = processInputAfterAnswer(world, extractedData,
                                                question, world.answer)
    /\ terminal' = Append(terminal, Event("answer", world.answer))
    /\ question' = NULL
    /\ pc' = "extracted"
    /\ UNCHANGED <<userConfig, DEFAULT_CONFIG, config, body, priority,
                   groups, sections, output, args, world, gh, rl,
                   interfaces, manager, comments,
                   deduped, loads, suppressLogs,
                   summary, thrown, exitCode>>

(***************************************************************************)
(* extract-pr-discussion.ts: generateAISummary, the delivery of main, and  *)
(* julesMode.  Further fields of world:                                    *)
(*   geminiApiKey      GEMINI_API_KEY is set                               *)
(*   llm               generateContent returns a text, an empty text, no   *)
(*                     text (undefined), or fails                          *)
(*   clipboardFailsAt  the clipboardy.writeSync call of the run that       *)
(*                     throws (the first, the second, 0 for none)          *)
(***************************************************************************)
SummaryUnavailable ==
    "AI Summary unavailable (GEMINI_API_KEY not configured)"
SummaryEmpty == "AI Summary generated but text was empty"
SummaryFailed == "AI Summary failed - check GEMINI_API_KEY and rate limits"

\* result.text of a call of generateContent that returns
resultText(w) ==
    IF w.llm = "text" THEN "Main concern: the security hole"
    ELSE IF w.llm = "empty" THEN ""
    ELSE NULL

generateAISummaryUnguarded(w) ==
    IF ~w.geminiApiKey THEN SummaryUnavailable
    ELSE IF w.llm = "fails" THEN SummaryFailed
    ELSE resultText(w)

generateAISummary(w) ==
    IF ~w.geminiApiKey THEN SummaryUnavailable
    ELSE IF w.llm = "fails" THEN SummaryFailed
    ELSE IF truthy(resultText(w)) THEN resultText(w) ELSE SummaryEmpty

\* catch (error) { if (config.clipboard.fallbackToConsole) ... else throw }
fallsBackAlways(cfg) == TRUE

fallsBack(cfg) == cfg.clipboard.fallbackToConsole

\* a || b of optional strings
orElse(a, b) == IF truthy(a) THEN a ELSE b

headRefOf(data) ==
    IF data.prDetails # NullObject THEN data.prDetails.head_ref ELSE NULL
prTitleOf(data) ==
    IF data.prDetails # NullObject THEN data.prDetails.title ELSE NULL
linearFieldOf(data, field) ==
    IF data.linearInfo # NullObject THEN data.linearInfo[field] ELSE NULL

\* julesMode: let firstCopyContent, of the two switch statements
firstCopyContent(cfg, data) ==
    IF data.linearInfo # NullObject /\ data.prInfo = NullObject
    THEN LET choice == cfg.julesMode.linearOnlyFirstCopy
         IN  IF choice = "title" THEN data.linearInfo.title
             ELSE IF choice = "branch_name"
                  THEN orElse(data.linearInfo.branchName, data.linearInfo.id)
             ELSE data.linearInfo.id
    ELSE LET choice == cfg.julesMode.firstCopy
         IN  IF choice = "linear_id"
             THEN orElse(linearFieldOf(data, "id"),
                         orElse(headRefOf(data), "unknown"))
             ELSE IF choice = "title"
                  THEN orElse(prTitleOf(data),
                              orElse(linearFieldOf(data, "title"),
                                     "unknown-title"))
             ELSE orElse(headRefOf(data),
                         orElse(linearFieldOf(data, "branchName"),
                                "unknown-branch"))

\* julesMode, the catch with fallbackToConsole, up to its promptUser: the
\* first item on the console, then "Press Enter to continue..."
julesFallbackFullFirst(content) ==
    <<Delivered("console", "full", NULL),
      Delivered("console", "first", content),
      Event("prompt", "Press Enter to continue...")>>

julesFallback(content) ==
    <<Delivered("console", "first", content),
      Event("prompt", "Press Enter to continue...")>>

\* the clipboardy.writeSync call number n of the run throws
writeThrows(w, n) == w.clipboardFailsAt = n

\* main: const output = formatOutput(extractedData), outside Jules mode
MainFormatOutput == ~args.julesFlag /\ FormatOutput

\* main from "Generate AI summary if requested" to its end
Deliver ==
    /\ pc = "formatted"
    /\ summary' = IF args.summaryFlag THEN generateAISummary(world) ELSE ""
    /\ LET printed ==
              <<Delivered("console", "full", NULL)>>
              \o (IF truthy(summary')
                  THEN <<Delivered("console", "summary", summary')>>
                  ELSE <<>>)
           shown == IF config.clipboard.showClipboardContent
                    THEN <<Delivered("console", "clipboardContent", NULL)>>
                    ELSE <<>>
       IN  IF args.noClipboardOutput \/ ~config.clipboard.enabled
           THEN /\ terminal' = terminal \o printed
                /\ exitCode' = 0
           ELSE IF ~writeThrows(world, 1)
           THEN /\ terminal' = terminal \o printed \o shown
                                \o <<Delivered("clipboard", "full", NULL)>>
                /\ exitCode' = 0
           ELSE IF fallsBack(config)
           THEN /\ terminal' = terminal \o printed \o shown
                                \o <<Event("clipboardFailed", "full")>>
                /\ exitCode' = 0
           ELSE /\ terminal' = terminal \o printed \o shown
                                \o <<Event("clipboardFailed", "full")>>
                                \o scriptFailed(suppressLogs)
                /\ exitCode' = 1
    /\ pc' = "exited"
    /\ Readline(pc')
    /\ UNCHANGED <<userConfig, DEFAULT_CONFIG, config, body, priority,
                   extractedData, groups, sections, output, args, world, gh,
                   manager, comments,
                   deduped, loads,
                   suppressLogs, question, thrown>>

\* julesMode up to its first promptUser
JulesModeFirstCopy ==
    /\ pc = "extracted"
    /\ args.julesFlag
    /\ LET content == firstCopyContent(config, extractedData)
           prompt == Event("prompt", "firstCopyComplete")
       IN  IF ~config.clipboard.enabled
           THEN /\ terminal' = terminal
                        \o <<Delivered("console", "first", content), prompt>>
                /\ pc' = "awaitEnter"
                /\ UNCHANGED exitCode
           ELSE IF ~writeThrows(world, 1)
           THEN /\ terminal' = terminal
                        \o <<Delivered("clipboard", "first", content),
                             prompt>>
                /\ pc' = "awaitEnter"
                /\ UNCHANGED exitCode
           ELSE IF fallsBack(config)
           THEN /\ terminal' = terminal
                        \o <<Event("clipboardFailed", "first")>>
                        \o julesFallback(content)
                /\ pc' = "awaitEnterFallback"
                /\ UNCHANGED exitCode
           ELSE /\ terminal' = terminal
                        \o <<Event("clipboardFailed", "first")>>
                        \o scriptFailed(suppressLogs)
                /\ exitCode' = 1
                /\ pc' = "exited"
    /\ Readline(pc')
    /\ UNCHANGED <<userConfig, DEFAULT_CONFIG, config, body, priority,
                   extractedData, groups, sections, output, args, world, gh,
                   manager, comments,
                   deduped, loads,
                   suppressLogs, question, summary, thrown>>

\* the user presses Enter; julesMode runs from "Now copy the full
\* discussion" to its end or to the promptUser of its catch
JulesModeSecondCopy ==
    /\ pc = "awaitEnter"
    /\ LET result == formatOutput(config, extractedData)
           entered == Append(terminal, Event("enter", NULL))
       IN  /\ groups' = result.groups
           /\ sections' = result.sections
           /\ output' = result.output
           /\ IF ~config.clipboard.enabled
              THEN /\ terminal' = Append(entered,
                                        Delivered("console", "full", NULL))
                   /\ exitCode' = 0
                   /\ pc' = "exited"
              ELSE IF ~writeThrows(world, 2)
              THEN /\ terminal' = Append(entered,
                                        Delivered("clipboard", "full", NULL))
                   /\ exitCode' = 0
                   /\ pc' = "exited"
              ELSE IF fallsBack(config)
              THEN /\ terminal' = entered
                          \o <<Event("clipboardFailed", "full")>>
                          \o julesFallback(firstCopyContent(config,
                                                            extractedData))
                   /\ pc' = "awaitEnterFallback"
                   /\ UNCHANGED exitCode
              ELSE /\ terminal' = entered
                          \o <<Event("clipboardFailed", "full")>>
                          \o scriptFailed(suppressLogs)
                   /\ exitCode' = 1
                   /\ pc' = "exited"
    /\ Readline(pc')
    /\ extractedData' = formatOutputArgument(config, extractedData)
    /\ UNCHANGED <<userConfig, DEFAULT_CONFIG, config, body, priority,
                   args, world, gh, manager, comments,
                   deduped, loads, suppressLogs, question,
                   summary, thrown>>

\* the user presses Enter at the prompt of the catch; the full discussion
\* goes to the console
JulesModeFallbackCopy ==
    /\ pc = "awaitEnterFallback"
    /\ LET result == formatOutput(config, extractedData)
       IN  /\ groups' = result.groups
           /\ sections' = result.sections
           /\ output' = result.output
    /\ terminal' = terminal \o <<Event("enter", NULL),
                                 Delivered("console", "full", NULL)>>
    /\ exitCode' = 0
    /\ pc' = "exited"
    /\ Readline(pc')
    /\ extractedData' = formatOutputArgument(config, extractedData)
    /\ UNCHANGED <<userConfig, DEFAULT_CONFIG, config, body, priority,
                   args, world, gh, manager, comments,
                   deduped, loads, suppressLogs, question,
                   summary, thrown>>

InitResolve ==
    /\ pc = "start"
    /\ userConfig \in ResolveUserConfigs
    /\ DEFAULT_CONFIG = InitialDefaultConfig
    /\ config = NullObject
    /\ body = NULL
    /\ priority = NULL
    /\ extractedData = NoData
    /\ groups = NullObject
    /\ sections = EmptyObject
    /\ output = <<>>
    /\ args \in [input : Inputs, julesFlag : {FALSE}, summaryFlag : {FALSE},
                 noClipboardOutput : BOOLEAN]
    /\ world \in ResolutionWorlds
    /\ suppressLogs = FALSE
    /\ question = NULL
    /\ terminal = <<>>
    /\ summary = ""
    /\ thrown = NULL
    /\ exitCode = NULL
    /\ gh = <<>>
    /\ rl = NULL
    /\ interfaces = 0
    /\ manager = NullObject
    /\ comments = <<>>
    /\ deduped = <<>>
    /\ loads = 0

NextResolve ==
    LoadConfig \/ Main \/ ProcessInputBegin \/ ProcessInputAnswer
SpecResolve == InitResolve /\ [][NextResolve]_vars

(***************************************************************************)
(* extract-pr-discussion.ts: fetchPRData, one execSync at a time.  The     *)
(* existence check is followed by the array literal handed to Promise.all: *)
(* the executor of each new Promise runs when the Promise is constructed,  *)
(* and execSync returns (or throws) when its subprocess has ended, so the  *)
(* next element of the array is evaluated after that.                      *)
(***************************************************************************)
\* the gh api calls of fetchPRData, in the order of the source
FanOut == <<"reviews", "comments", "issueComments", "details">>
GhCalls == <<"check">> \o FanOut

\* the subprocess of the call ends with a non-zero status that execSync
\* sees: the pull request does not exist, or the call fails and no pipe to
\* cat hides its status
execSyncThrows(w, prInfo, call) ==
    IF ~(w.prExists /\ prInfo.number = ThePR.number) THEN TRUE
    ELSE IF call \in PipedCalls
         THEN w.ghFailing = call /\ w.pipedFailure = "throws"
         ELSE call = "details" /\ w.ghFailing = "details"

Started(call) == \E i \in DOMAIN gh : gh[i] = Event("start", call)
Ended(call) ==
    \E i \in DOMAIN gh : gh[i] \in {Event("end", call), Event("throw", call)}
Running(call) == Started(call) /\ ~Ended(call)

\* the pull request main was asked for
prInfoOfInput == [ThePR EXCEPT !.number = parseInt(args.input)]

\* execSync(`gh api ...`) starts its subprocess: the first call when
\* fetchPRData begins, each later call when the call before it has returned
ExecSyncStart ==
    /\ pc = "fetchPRData"
    /\ \E k \in DOMAIN GhCalls :
          /\ ~Started(GhCalls[k])
          /\ \A j \in 1..(k - 1) : Ended(GhCalls[j])
          /\ gh' = Append(gh, Event("start", GhCalls[k]))
    /\ UNCHANGED <<pc, userConfig, DEFAULT_CONFIG, config, body, priority,
                   extractedData, groups, sections, output, args, world,
                   suppressLogs, question, terminal, summary, thrown,
                   exitCode, rl, interfaces, manager, comments,
                   deduped, loads>>

\* the subprocess ends with status 0 and execSync returns its output
ExecSyncReturn ==
    /\ pc = "fetchPRData"
    /\ \E k \in DOMAIN GhCalls :
          /\ Running(GhCalls[k])
          /\ ~execSyncThrows(world, prInfoOfInput, GhCalls[k])
          /\ gh' = Append(gh, Event("end", GhCalls[k]))
          /\ pc' = IF k = Len(GhCalls) THEN "allSettled" ELSE pc
    /\ UNCHANGED <<userConfig, DEFAULT_CONFIG, config, body, priority,
                   extractedData, groups, sections, output, args, world,
                   suppressLogs, question, terminal, summary, thrown,
                   exitCode, rl, interfaces, manager, comments,
                   deduped, loads>>

\* the subprocess fails and execSync throws: the catch of fetchPRData
\* returns null
ExecSyncThrow ==
    /\ pc = "fetchPRData"
    /\ \E k \in DOMAIN GhCalls :
          /\ Running(GhCalls[k])
          /\ execSyncThrows(world, prInfoOfInput, GhCalls[k])
          /\ gh' = Append(gh, Event("throw", GhCalls[k]))
    /\ pc' = "fetched"
    /\ extractedData' = NoData
    /\ UNCHANGED <<userConfig, DEFAULT_CONFIG, config, body, priority,
                   groups, sections, output, args, world, suppressLogs,
                   question, terminal, summary, thrown, exitCode, rl,
                   interfaces, manager, comments,
                   deduped, loads>>

\* Promise.all resolves; fetchPRData returns the parsed outputs and
\* processInput stores them in extractedData
FetchPRDataReturn ==
    /\ pc = "allSettled"
    /\ extractedData' =
          withPRData([NoData EXCEPT !.prInfo = prInfoOfInput],
                     fetchPRData(world, prInfoOfInput))
    /\ pc' = "fetched"
    /\ UNCHANGED <<userConfig, DEFAULT_CONFIG, config, body, priority,
                   groups, sections, output, args, world, suppressLogs,
                   question, terminal, summary, thrown, exitCode, gh, rl,
                   interfaces, manager, comments,
                   deduped, loads>>

\* the pull requests asked for and the answers of gh
FetchWorlds ==
    {[HappyWorld EXCEPT !.prExists = e, !.ghFailing = f,
                        !.pipedFailure = p, !.headRef = h] :
        e \in BOOLEAN,
        f \in {"none", "reviews", "comments", "issueComments", "details"},
        p \in {"empty", "throws"},
        h \in {"feature/AB-12-login", "fix-login"}}

InitFetch ==
    /\ pc = "fetchPRData"
    /\ userConfig = NoUserConfig
    /\ DEFAULT_CONFIG = InitialDefaultConfig
    /\ config = NullObject
    /\ body = NULL
    /\ priority = NULL
    /\ extractedData = NoData
    /\ groups = NullObject
    /\ sections = EmptyObject
    /\ output = <<>>
    /\ args \in [input : {"7", "8"}, julesFlag : {FALSE},
                 summaryFlag : {FALSE}, noClipboardOutput : {FALSE}]
    /\ world \in FetchWorlds
    /\ suppressLogs = FALSE
    /\ question = NULL
    /\ terminal = <<>>
    /\ summary = ""
    /\ thrown = NULL
    /\ exitCode = NULL
    /\ gh = <<>>
    /\ rl = NULL
    /\ interfaces = 0
    /\ manager = NullObject
    /\ comments = <<>>
    /\ deduped = <<>>
    /\ loads = 0

NextFetch ==
    ExecSyncStart \/ ExecSyncReturn \/ ExecSyncThrow \/ FetchPRDataReturn
SpecFetch == InitFetch /\ [][NextFetch]_vars

(***************************************************************************)
(* Whole runs of main: every flag of the command line, the services that   *)
(* resolve the input, the summary service and the clipboard.               *)
(***************************************************************************)
\* what the services hold about the input: everything, an issue without a
\* pull request, a branch that names no issue, no Linear access, no pull
\* request of that number
DeliveryResolutions ==
    {HappyWorld,
     [HappyWorld EXCEPT !.attachments = <<>>, !.branchPR = FALSE],
     [HappyWorld EXCEPT !.headRef = "fix-login"],
     [HappyWorld EXCEPT !.linearApiKey = FALSE],
     [HappyWorld EXCEPT !.prExists = FALSE]}

SummaryServices ==
    {[geminiApiKey |-> TRUE, llm |-> "text"],
     [geminiApiKey |-> TRUE, llm |-> "empty"],
     [geminiApiKey |-> TRUE, llm |-> "undefined"],
     [geminiApiKey |-> TRUE, llm |-> "fails"],
     [geminiApiKey |-> FALSE, llm |-> "text"]}

MaxWrites == 2

DeliveryWorlds ==
    {[r EXCEPT !.answer = a, !.clipboardFailsAt = n,
               !.geminiApiKey = g.geminiApiKey, !.llm = g.llm] :
        r \in DeliveryResolutions, a \in {"", "7"}, n \in 0..MaxWrites,
        g \in SummaryServices}

DeliverUserConfigs ==
    {NoUserConfig,
     [clipboard |-> [fallbackToConsole |-> FALSE]],
     [clipboard |-> [enabled |-> FALSE]],
     [julesMode |-> [firstCopy |-> "title",
                     linearOnlyFirstCopy |-> "branch_name"]],
     [julesMode |-> [firstCopy |-> "linear_id",
                     linearOnlyFirstCopy |-> "title"],
      clipboard |-> [fallbackToConsole |-> FALSE,
                     showClipboardContent |-> FALSE]]}

InitDeliver ==
    /\ pc = "start"
    /\ userConfig \in DeliverUserConfigs
    /\ DEFAULT_CONFIG = InitialDefaultConfig
    /\ config = NullObject
    /\ body = NULL
    /\ priority = NULL
    /\ extractedData = NoData
    /\ groups = NullObject
    /\ sections = EmptyObject
    /\ output = <<>>
    /\ args \in [input : {"AB-12", "7"}, julesFlag : BOOLEAN,
                 summaryFlag : BOOLEAN, noClipboardOutput : BOOLEAN]
    /\ world \in DeliveryWorlds
    /\ suppressLogs = FALSE
    /\ question = NULL
    /\ terminal = <<>>
    /\ summary = ""
    /\ thrown = NULL
    /\ exitCode = NULL
    /\ gh = <<>>
    /\ rl = NULL
    /\ interfaces = 0
    /\ manager = NullObject
    /\ comments = <<>>
    /\ deduped = <<>>
    /\ loads = 0

NextDeliver ==
    \/ LoadConfig
    \/ Main
    \/ ProcessInputBegin
    \/ ProcessInputAnswer
    \/ MainFormatOutput
    \/ Deliver
    \/ JulesModeFirstCopy
    \/ JulesModeSecondCopy
    \/ JulesModeFallbackCopy
SpecDeliver == InitDeliver /\ [][NextDeliver]_vars

(***************************************************************************)
(* Every control path of main: help, no argument, Jules mode, the normal   *)
(* delivery and the catch.                                                 *)
(***************************************************************************)
ReleaseWorlds ==
    {w \in DeliveryWorlds :
        w.answer = "" /\ w.geminiApiKey /\ w.llm = "text"}

InitRelease ==
    /\ pc = "start"
    /\ userConfig \in DeliverUserConfigs
    /\ DEFAULT_CONFIG = InitialDefaultConfig
    /\ config = NullObject
    /\ body = NULL
    /\ priority = NULL
    /\ extractedData = NoData
    /\ groups = NullObject
    /\ sections = EmptyObject
    /\ output = <<>>
    /\ args \in [input : {"AB-12", "7", "--help", NULL},
                 julesFlag : BOOLEAN, summaryFlag : {FALSE},
                 noClipboardOutput : BOOLEAN]
    /\ world \in ReleaseWorlds
    /\ suppressLogs = FALSE
    /\ question = NULL
    /\ terminal = <<>>
    /\ summary = ""
    /\ thrown = NULL
    /\ exitCode = NULL
    /\ gh = <<>>
    /\ rl = NULL
    /\ interfaces = 0
    /\ manager = NullObject
    /\ comments = <<>>
    /\ deduped = <<>>
    /\ loads = 0

NextRelease ==
    \/ LoadConfig
    \/ MainHelp
    \/ MainUsage
    \/ Main
    \/ ProcessInputBegin
    \/ ProcessInputAnswer
    \/ MainFormatOutput
    \/ Deliver
    \/ JulesModeFirstCopy
    \/ JulesModeSecondCopy
    \/ JulesModeFallbackCopy
SpecRelease == InitRelease /\ [][NextRelease]_vars

(***************************************************************************)
(* jules-pr-manager (part_002): the work lists.  manager.openPRs is what   *)
(* GitHub and Linear hold about the open pull requests, in the order of    *)
(* the pulls listing:                                                      *)
(*   lastCommitAuthor  author of the last commit                           *)
(*   copilotReviews    number of reviews by the Copilot reviewer           *)
(*   commitsAfter      commits dated after the latest of those reviews     *)
(*   issuePriority     priority of the Linear issue of the branch (0: no   *)
(*                     issue or no priority)                               *)
(*   lastCommitDate    date of the last commit, as a number                *)
(***************************************************************************)
MaxPRs == 2
JulesAuthor == "google-labs-jules[bot]"

\* getAllOpenPRs: the PRInfo pushed for a pull request
prInfoOf(pr) ==
    LET copilotReviewed == pr.copilotReviews > 0
    IN  [number |-> pr.number,
         lastCommitAuthor |-> pr.lastCommitAuthor,
         lastCommitDate |-> pr.lastCommitDate,
         linearUrgency |-> 0,
         copilotReviewed |-> copilotReviewed,
         commitsAfterCopilotReview |->
             IF copilotReviewed THEN pr.commitsAfter ELSE 0]

getAllOpenPRs(openPRs) == [i \in 1..Len(openPRs) |-> prInfoOf(openPRs[i])]

\* enrichWithLinearData: pr.linearUrgency = issue.priority || 0
enrichWithLinearData(openPRs, prs) ==
    [i \in 1..Len(prs) |->
        [prs[i] EXCEPT !.linearUrgency = openPRs[i].issuePriority]]

\* the comparator of sortPRsByUrgencyAndDate: a negative, zero or positive
\* number
compareUrgencyAndDate(a, b) ==
    LET aUrgency == IF a.linearUrgency # 0 THEN a.linearUrgency ELSE 999
        bUrgency == IF b.linearUrgency # 0 THEN b.linearUrgency ELSE 999
    IN  IF aUrgency - bUrgency # 0 THEN aUrgency - bUrgency
        ELSE b.lastCommitDate - a.lastCommitDate

RECURSIVE insertByUrgencyAndDate(_, _)
insertByUrgencyAndDate(sorted, pr) ==
    IF sorted = <<>> THEN <<pr>>
    ELSE LET last == sorted[Len(sorted)]
         IN  IF compareUrgencyAndDate(last, pr) > 0
             THEN Append(insertByUrgencyAndDate(
                             SubSeq(sorted, 1, Len(sorted) - 1), pr), last)
             ELSE Append(sorted, pr)

\* prs.sort(...): a stable sort
RECURSIVE sortPRsByUrgencyAndDate(_)
sortPRsByUrgencyAndDate(prs) ==
    IF prs = <<>> THEN <<>>
    ELSE insertByUrgencyAndDate(
             sortPRsByUrgencyAndDate(SubSeq(prs, 1, Len(prs) - 1)),
             prs[Len(prs)])

\* the filter of findPRsNeedingCopilotReview
needsCopilotReview(pr) ==
    /\ includes(pr.lastCommitAuthor, "google-labs-jules")
    /\ (~pr.copilotReviewed \/ pr.commitsAfterCopilotReview > 0)

needsJulesUpdateReviewedOnly(pr) == pr.copilotReviewed

\* the filter of findPRsNeedingJulesUpdate
needsJulesUpdate(pr) ==
    pr.copilotReviewed /\ pr.commitsAfterCopilotReview = 0

findPRsNeedingCopilotReview(openPRs) ==
    LET allPRs == getAllOpenPRs(openPRs)
        enrichedPRs == enrichWithLinearData(openPRs, allPRs)
    IN  sortPRsByUrgencyAndDate(SelectSeq(enrichedPRs, needsCopilotReview))

findPRsNeedingJulesUpdate(openPRs) ==
    LET allPRs == getAllOpenPRs(openPRs)
        enrichedPRs == enrichWithLinearData(openPRs, allPRs)
    IN  sortPRsByUrgencyAndDate(SelectSeq(enrichedPRs, needsJulesUpdate))

\* the states one open pull request can be in
PullRequestStates(n) ==
    {[number |-> n, lastCommitAuthor |-> a, copilotReviews |-> r,
      commitsAfter |-> c, issuePriority |-> p, lastCommitDate |-> n] :
        a \in {JulesAuthor, "alice"}, r \in 0..1, c \in 0..1, p \in {0, 2}}

RECURSIVE OpenPRStates(_)
OpenPRStates(n) ==
    IF n = 0 THEN {<<>>}
    ELSE LET fewer == OpenPRStates(n - 1)
         IN  fewer \cup {Append(l, pr) : l \in {f \in fewer : Len(f) = n - 1},
                                         pr \in PullRequestStates(n)}

\* pr-manager list-needing-review, or its part of pr-manager summary
FindPRsNeedingCopilotReview ==
    /\ pc = "manager"
    /\ "needingReview" \notin manager.found
    /\ manager' = [manager EXCEPT
          !.needingReview = findPRsNeedingCopilotReview(manager.openPRs),
          !.found = @ \cup {"needingReview"}]
    /\ UNCHANGED <<pc, userConfig, DEFAULT_CONFIG, config, body, priority,
                   extractedData, groups, sections, output, args, world,
                   suppressLogs, question, terminal, summary, thrown,
                   exitCode, gh, rl, interfaces, comments, deduped, loads>>

\* pr-manager list-needing-update, or its part of pr-manager summary
FindPRsNeedingJulesUpdate ==
    /\ pc = "manager"
    /\ "needingUpdate" \notin manager.found
    /\ manager' = [manager EXCEPT
          !.needingUpdate = findPRsNeedingJulesUpdate(manager.openPRs),
          !.found = @ \cup {"needingUpdate"}]
    /\ UNCHANGED <<pc, userConfig, DEFAULT_CONFIG, config, body, priority,
                   extractedData, groups, sections, output, args, world,
                   suppressLogs, question, terminal, summary, thrown,
                   exitCode, gh, rl, interfaces, comments, deduped, loads>>

InitManager ==
    /\ pc = "manager"
    /\ userConfig = NoUserConfig
    /\ DEFAULT_CONFIG = InitialDefaultConfig
    /\ config = NullObject
    /\ body = NULL
    /\ priority = NULL
    /\ extractedData = NoData
    /\ groups = NullObject
    /\ sections = EmptyObject
    /\ output = <<>>
    /\ args = NullObject
    /\ world = NullObject
    /\ suppressLogs = FALSE
    /\ question = NULL
    /\ terminal = <<>>
    /\ summary = ""
    /\ thrown = NULL
    /\ exitCode = NULL
    /\ gh = <<>>
    /\ rl = NULL
    /\ interfaces = 0
    /\ \E prs \in OpenPRStates(MaxPRs) :
          manager = [openPRs |-> prs, needingReview |-> <<>>,
                     needingUpdate |-> <<>>, found |-> {}]
    /\ comments = <<>>
    /\ deduped = <<>>
    /\ loads = 0

NextManager == FindPRsNeedingCopilotReview \/ FindPRsNeedingJulesUpdate
SpecManager == InitManager /\ [][NextManager]_vars

(***************************************************************************)
(* Properties of detectPriority.                                           *)
(***************************************************************************)
\* some keyword of tier t, as configured, occurs in the lowercased text
TierOccurs(cfg, t, text) ==
    \E k \in Range(cfg.priority.customKeywords[t]) :
        includes(toLowerCase(text), k)

\* some keyword of tier t occurs in the text ignoring letter case
TierOccursIgnoringCase(cfg, t, text) ==
    \E k \in Range(cfg.priority.customKeywords[t]) :
        includes(toLowerCase(text), toLowerCase(k))

\* C1: detectPriority returns the first of HIGH, MEDIUM, LOW that has a
\* configured keyword occurring in the lowercased body (HIGH wins over
\* MEDIUM and LOW keywords that occur too), and the configured
\* defaultPriority when no keyword of any tier occurs.
C1_FirstTierWins ==
    pc = "classified" =>
        /\ TierOccurs(config, "HIGH", body) => priority = "HIGH"
        /\ (~TierOccurs(config, "HIGH", body)
              /\ TierOccurs(config, "MEDIUM", body)) => priority = "MEDIUM"
        /\ (~TierOccurs(config, "HIGH", body)
              /\ ~TierOccurs(config, "MEDIUM", body)
              /\ TierOccurs(config, "LOW", body)) => priority = "LOW"
        /\ (\A t \in Priorities : ~TierOccurs(config, t, body))
              => priority = config.priority.defaultPriority

\* a body with keywords of all three tiers was classified HIGH, and a body
\* without any keyword got a default that the user configured
C1_Witness ==
    /\ pc = "classified"
    /\ body = "minor security typo"
    /\ priority = "HIGH"
    /\ TierOccurs(config, "LOW", body)

C1_WitnessDefault ==
    /\ pc = "classified"
    /\ body = "lgtm"
    /\ priority = "LOW"

\* C2 (as claimed): every configured keyword, in whatever letter case it was
\* written, classifies each body that contains it ignoring case into its
\* tier unless a higher tier matches.
C2_CaseInsensitive ==
    pc = "classified" =>
        /\ TierOccursIgnoringCase(config, "HIGH", body) => priority = "HIGH"
        /\ (~TierOccursIgnoringCase(config, "HIGH", body)
              /\ TierOccursIgnoringCase(config, "MEDIUM", body))
              => priority = "MEDIUM"
        /\ (~TierOccursIgnoringCase(config, "HIGH", body)
              /\ ~TierOccursIgnoringCase(config, "MEDIUM", body)
              /\ TierOccursIgnoringCase(config, "LOW", body))
              => priority = "LOW"

(***************************************************************************)
(* Properties of formatOutput.                                             *)
(***************************************************************************)
\* formatOutput has returned, and it used the PR / dual template
DualTemplate ==
    /\ pc = "formatted"
    /\ ~(extractedData.linearInfo # NullObject
           /\ extractedData.prInfo = NullObject)

\* the first position of name in order, 0 if it is not listed
PositionIn(order, name) ==
    IF \E i \in 1..Len(order) : order[i] = name
    THEN CHOOSE i \in 1..Len(order) :
            order[i] = name /\ \A j \in 1..(i - 1) : order[j] # name
    ELSE 0

BlocksOf(name) == SelectSeq(output, LAMBDA b : b.section = name)
Rendered(name) == \E i \in 1..Len(output) : output[i].section = name

\* the fetched fields of an enhanced comment
Fetched(c) == [f \in (DOMAIN c) \ {"isBot", "priority"} |-> c[f]]
FetchedAll(cs) == [i \in 1..Len(cs) |-> Fetched(cs[i])]

SamePair(a, b) ==
    /\ a.author = b.author
    /\ substring0(a.body, 100) = substring0(b.body, 100)

\* the items of a fetched list that no earlier item of the list matches in
\* author and 100-character body prefix, in their order
FirstOccurrences(all) ==
    LET indexed == [i \in 1..Len(all) |-> [at |-> i, item |-> all[i]]]
        kept == SelectSeq(indexed, LAMBDA e :
                    \A j \in 1..(e.at - 1) : ~SamePair(all[j], e.item))
    IN  [k \in 1..Len(kept) |-> kept[k].item]

ByBot(all) ==
    SelectSeq(all, LAMBDA c : arrayIncludes(config.filtering.botUsers,
                                            c.author))
ByHuman(all) ==
    SelectSeq(all, LAMBDA c : ~arrayIncludes(config.filtering.botUsers,
                                             c.author))

\* C3: with enableDeduplication on, each comment group keeps exactly the
\* items that are the first of that group with their (author, first 100
\* characters of body) pair, in their order and with their field values;
\* items of another group never remove an item.
C3_FirstOccurrencePerGroup ==
    (DualTemplate /\ config.filtering.enableDeduplication) =>
        /\ FetchedAll(groups.humanReviews)
              = ByHuman(FirstOccurrences(extractedData.reviews))
        /\ FetchedAll(groups.botReviews)
              = ByBot(FirstOccurrences(extractedData.reviews))
        /\ FetchedAll(groups.humanReviewComments)
              = ByHuman(FirstOccurrences(extractedData.reviewComments))
        /\ FetchedAll(groups.botReviewComments)
              = ByBot(FirstOccurrences(extractedData.reviewComments))
        /\ FetchedAll(groups.humanIssueComments)
              = ByHuman(FirstOccurrences(extractedData.issueComments))
        /\ FetchedAll(groups.botIssueComments)
              = ByBot(FirstOccurrences(extractedData.issueComments))

\* two discussion comments of one author that agree on their first 100
\* characters and differ behind them: the first one is kept, alone
C3_Witness ==
    /\ DualTemplate
    /\ config.filtering.enableDeduplication
    /\ Len(extractedData.issueComments) = 2
    /\ extractedData.issueComments[1].body
          # extractedData.issueComments[2].body
    /\ Len(groups.humanIssueComments) = 1
    /\ Fetched(groups.humanIssueComments[1]) = extractedData.issueComments[1]

\* C4: the output is the rendered sections in the order of
\* config.output.sectionOrder: the text of section a precedes the text of
\* section b exactly if a is listed before b, and every rendered section
\* that is listed is in the output as it was rendered.
C4_SectionOrderRespected ==
    DualTemplate =>
        /\ \A i, j \in 1..Len(output) :
              (output[i].section # output[j].section) =>
                 (i < j <=>
                    PositionIn(config.output.sectionOrder, output[i].section)
                      < PositionIn(config.output.sectionOrder,
                                   output[j].section))
        /\ \A name \in DOMAIN sections :
              PositionIn(config.output.sectionOrder, name) > 0
                 => BlocksOf(name) = sections[name]

\* a report with action items and a header, loaded from a file that lists
\* actionItems before header
C4_Witness ==
    /\ DualTemplate
    /\ "output" \in DOMAIN userConfig
    /\ "sectionOrder" \in DOMAIN userConfig.output
    /\ Rendered("actionItems")
    /\ Rendered("header")
    /\ Rendered("humanCodeComments")

\* C5 (as claimed): the report lists the sections in the order the user
\* wrote in output.sectionOrder of the configuration file.
C5_UserOrderIsEffective ==
    (/\ DualTemplate
     /\ "output" \in DOMAIN userConfig
     /\ "sectionOrder" \in DOMAIN userConfig.output) =>
        \A i, j \in 1..Len(output) :
            LET userOrder == userConfig.output.sectionOrder
                a == PositionIn(userOrder, output[i].section)
                b == PositionIn(userOrder, output[j].section)
            IN  (a > 0 /\ b > 0 /\ a < b) => i < j

HasHuman(all) == ByHuman(all) # <<>>
HasBot(all) == ByBot(all) # <<>>

\* the section has nothing to show: no item of its kind was fetched, or its
\* toggle is off
ContentEmpty(name) ==
    CASE name = "header" -> ~config.output.includeBranchNameHeader
      [] name = "summaryHeader" -> ~config.output.includeUnifiedSummaryHeader
      [] name = "prOverview" ->
            \/ extractedData.prInfo = NullObject
            \/ extractedData.prDetails = NullObject
            \/ ~config.integrations.github.includePRDescription
      [] name = "linearOverview" ->
            \/ extractedData.linearInfo = NullObject
            \/ ~config.integrations.linear.includeComments
      [] name = "humanReviews" ->
            \/ ~HasHuman(extractedData.reviews)
            \/ ~config.integrations.github.includeReviews
      [] name = "humanCodeComments" ->
            \/ ~HasHuman(extractedData.reviewComments)
            \/ ~config.integrations.github.includeReviewComments
      [] name = "humanGeneralComments" ->
            \/ ~HasHuman(extractedData.issueComments)
            \/ ~config.integrations.github.includeIssueComments
      [] name = "botFeedback" ->
            \/ ~(\/ HasBot(extractedData.reviews)
                 \/ HasBot(extractedData.reviewComments)
                 \/ HasBot(extractedData.issueComments))
            \/ ~config.filtering.includeBotFeedback
      [] name = "actionItems" ->
            ~(\/ HasHuman(extractedData.reviews)
              \/ HasHuman(extractedData.reviewComments)
              \/ HasHuman(extractedData.issueComments))
      [] name = "julesRules" -> ~config.output.includeJulesRules
      [] OTHER -> TRUE

SectionNames == Range(DefaultSectionOrder)

\* C6: with includeEmptySections false the output holds no fragment and no
\* header of a section whose content is empty, and a name of sectionOrder
\* without a rendered fragment contributes nothing to the output.
C6_NoEmptySectionInOutput ==
    (DualTemplate /\ ~config.filtering.includeEmptySections) =>
        /\ \A name \in SectionNames \cup Range(config.output.sectionOrder) :
              ContentEmpty(name) => ~Rendered(name)
        /\ \A name \in Range(config.output.sectionOrder) :
              name \notin DOMAIN sections => ~Rendered(name)
        /\ \A i \in 1..Len(output) : output[i].section \in DOMAIN sections

\* a report without a human review and without bot items, under a section
\* order that names a section that does not exist
C6_Witness ==
    /\ DualTemplate
    /\ ~config.filtering.includeEmptySections
    /\ arrayIncludes(config.output.sectionOrder, "footer")
    /\ ContentEmpty("humanReviews")
    /\ ContentEmpty("botFeedback")
    /\ Rendered("humanCodeComments")
    /\ Rendered("julesRules")

\* C7 (as claimed): with includeEmptySections true, humanReviews without a
\* human review and botFeedback without a bot item still appear in the
\* output when sectionOrder names them.
C7_EmptySectionsShown ==
    (DualTemplate /\ config.filtering.includeEmptySections) =>
        /\ (/\ arrayIncludes(config.output.sectionOrder, "humanReviews")
            /\ config.integrations.github.includeReviews
            /\ ~HasHuman(extractedData.reviews)) => Rendered("humanReviews")
        /\ (/\ arrayIncludes(config.output.sectionOrder, "botFeedback")
            /\ config.filtering.includeBotFeedback
            /\ ~HasBot(extractedData.reviews)
            /\ ~HasBot(extractedData.reviewComments)
            /\ ~HasBot(extractedData.issueComments)) => Rendered("botFeedback")

Rank(p) == CASE p = "HIGH" -> 0 [] p = "MEDIUM" -> 1 [] p = "LOW" -> 2

ItemsOf(name) ==
    SelectSeq(output, LAMBDA b : b.section = name /\ b.kind = "item")

\* what an item block prints of its comment, and the same of a comment
Printed(blocks) ==
    [i \in 1..Len(blocks) |->
        [author |-> blocks[i].author, body |-> blocks[i].text,
         priority |-> blocks[i].priority]]
PrintedOf(cs) ==
    [i \in 1..Len(cs) |->
        [author |-> cs[i].author, body |-> cs[i].body,
         priority |-> cs[i].priority]]

NonDecreasing(items) ==
    \A i, j \in 1..Len(items) :
        i < j => Rank(items[i].priority) <= Rank(items[j].priority)

OfTier(items, tier) == SelectSeq(items, LAMBDA c : c.priority = tier)

Count(items, x) == Cardinality({i \in 1..Len(items) : items[i] = x})
SameItems(a, b) ==
    \A x \in Range(a) \cup Range(b) : Count(a, x) = Count(b, x)

\* items lists the comments of fetched in non-decreasing priority rank, the
\* comments of one tier in their fetch order
PrioritySorted(items, fetched) ==
    /\ NonDecreasing(items)
    /\ SameItems(items, fetched)
    /\ \A tier \in Priorities : OfTier(items, tier) = OfTier(fetched, tier)

\* items lists the comments of cs file by file, in the order files, and the
\* comments of each file are PrioritySorted
RECURSIVE SortedPerFile(_, _, _)
SortedPerFile(items, files, cs) ==
    IF files = <<>> THEN items = <<>>
    ELSE LET ofFile == SelectSeq(cs, LAMBDA c :
                 (IF truthy(c.path) THEN c.path ELSE "General") = Head(files))
             n == Len(ofFile)
         IN  /\ Len(items) >= n
             /\ PrioritySorted(SubSeq(items, 1, n), PrintedOf(ofFile))
             /\ SortedPerFile(SubSeq(items, n + 1, Len(items)), Tail(files),
                              cs)

\* the files of the comments ("General" for a comment without a path)
FilesIn(cs) ==
    {IF truthy(cs[i].path) THEN cs[i].path ELSE "General" : i \in 1..Len(cs)}

\* the orders in which the files of S can be listed
Orders(S) == {p \in SeqsOfLength(S, Cardinality(S)) : Range(p) = S}

\* C8 (as claimed): each of the three human sections lists its items in
\* non-decreasing priority rank over the whole section, same-tier items in
\* fetch order, whether or not inline comments are grouped by file.
C8_SortedOverWholeSection ==
    DualTemplate =>
        /\ Rendered("humanReviews") =>
              PrioritySorted(Printed(ItemsOf("humanReviews")),
                             PrintedOf(groups.humanReviews))
        /\ Rendered("humanCodeComments") =>
              PrioritySorted(Printed(ItemsOf("humanCodeComments")),
                             PrintedOf(groups.humanReviewComments))
        /\ Rendered("humanGeneralComments") =>
              PrioritySorted(Printed(ItemsOf("humanGeneralComments")),
                             PrintedOf(groups.humanIssueComments))

\* C8 (amended): humanReviews and humanGeneralComments list their items in
\* non-decreasing priority rank, same-tier items in fetch order;
\* humanCodeComments does so over the whole section when groupCommentsByFile
\* is off and, when it is on, lists the comments of each file together and
\* sorts them in that way inside the file.
C8_SortedPerSectionOrFile ==
    DualTemplate =>
        /\ Rendered("humanReviews") =>
              PrioritySorted(Printed(ItemsOf("humanReviews")),
                             PrintedOf(groups.humanReviews))
        /\ Rendered("humanGeneralComments") =>
              PrioritySorted(Printed(ItemsOf("humanGeneralComments")),
                             PrintedOf(groups.humanIssueComments))
        /\ (Rendered("humanCodeComments")
              /\ ~config.codeContext.groupCommentsByFile) =>
              PrioritySorted(Printed(ItemsOf("humanCodeComments")),
                             PrintedOf(groups.humanReviewComments))
        /\ (Rendered("humanCodeComments")
              /\ config.codeContext.groupCommentsByFile) =>
              \E files \in Orders(FilesIn(groups.humanReviewComments)) :
                  SortedPerFile(Printed(ItemsOf("humanCodeComments")), files,
                                groups.humanReviewComments)

\* grouped by file, a LOW comment of the first file is printed before a HIGH
\* comment of the second file
C8_Witness ==
    /\ DualTemplate
    /\ config.codeContext.groupCommentsByFile
    /\ Len(ItemsOf("humanCodeComments")) = 2
    /\ ItemsOf("humanCodeComments")[1].priority = "LOW"
    /\ ItemsOf("humanCodeComments")[2].priority = "HIGH"

\* the blocks of the humanCodeComments section behind its heading
CodeBlocks ==
    SelectSeq(output, LAMBDA b :
        b.section = "humanCodeComments" /\ b.kind \in {"file", "item"})

\* the item blocks between the file heading at position h of blocks and the
\* next file heading
ItemsUnder(blocks, h) ==
    LET next == IF \E j \in (h + 1)..Len(blocks) : blocks[j].kind = "file"
                THEN CHOOSE j \in (h + 1)..Len(blocks) :
                        /\ blocks[j].kind = "file"
                        /\ \A m \in (h + 1)..(j - 1) : blocks[m].kind # "file"
                ELSE Len(blocks) + 1
    IN  SubSeq(blocks, h + 1, next - 1)

\* C9: with groupCommentsByFile and showFilePaths on, the human inline
\* comments of one path ("General" without a path) are all rendered under
\* exactly one file heading of that path, in non-decreasing priority rank:
\* a comment containing "security" precedes a LOW comment such as "typo" of
\* the same file.
C9_OneHeadingPerFile ==
    (/\ DualTemplate
     /\ config.codeContext.groupCommentsByFile
     /\ config.codeContext.showFilePaths
     /\ Rendered("humanCodeComments")) =>
        LET blocks == CodeBlocks
            cs == groups.humanReviewComments
            headings == {h \in 1..Len(blocks) : blocks[h].kind = "file"}
        IN  /\ Len(blocks) > 0 /\ blocks[1].kind = "file"
            /\ \A file \in FilesIn(cs) :
                  Cardinality({h \in headings : blocks[h].text = file}) = 1
            /\ \A h \in headings :
                  LET under == ItemsUnder(blocks, h)
                      ofFile == SelectSeq(cs, LAMBDA c :
                          (IF truthy(c.path) THEN c.path ELSE "General")
                              = blocks[h].text)
                  IN  /\ SameItems(Printed(under), PrintedOf(ofFile))
                      /\ NonDecreasing(under)
                      /\ \A i, j \in 1..Len(under) :
                            (/\ includes(toLowerCase(under[i].text),
                                         "security")
                             /\ under[j].priority = "LOW") => i < j

\* a "typo" comment and then a "security" comment on a.ts: one heading for
\* a.ts, the "security" comment first
C9_Witness ==
    /\ DualTemplate
    /\ config.codeContext.groupCommentsByFile
    /\ config.codeContext.showFilePaths
    /\ Len(extractedData.reviewComments) = 2
    /\ extractedData.reviewComments[1].body = "typo"
    /\ extractedData.reviewComments[2].body = "security hole"
    /\ extractedData.reviewComments[1].path = "a.ts"
    /\ Len(CodeBlocks) = 3
    /\ CodeBlocks[1].kind = "file" /\ CodeBlocks[1].text = "a.ts"
    /\ CodeBlocks[2].text = "security hole"
    /\ CodeBlocks[3].text = "typo"

\* the bot items of a tier that remain after deduplication
BotsOfTier(tier) ==
    OfTier(groups.botReviews \o groups.botReviewComments
               \o groups.botIssueComments, tier)

BotBlocks(kind, tier) ==
    SelectSeq(output, LAMBDA b :
        b.section = "botFeedback" /\ b.kind = kind /\ b.priority = tier)

\* C10: in botFeedback a tier with n > 0 bot items and cap
\* k = maxBotItemsPerPriority >= 0 shows the summaries (author: first 100
\* characters of body) of its first min(n, k) items, followed by one
\* "... and n-k more" line exactly if n > k; a tier without bot item prints
\* nothing.
C10_BotTierCapped ==
    (DualTemplate /\ Rendered("botFeedback")) =>
        \A tier \in Priorities :
            LET items == BotsOfTier(tier)
                n == Len(items)
                k == config.filtering.maxBotItemsPerPriority
                summaries == BotBlocks("summary", tier)
                more == BotBlocks("more", tier)
            IN  /\ n = 0 =>
                      \A i \in 1..Len(output) :
                          output[i].section = "botFeedback"
                              => output[i].priority # tier
                /\ n > 0 =>
                      /\ Len(summaries) = Min(n, k)
                      /\ \A i \in 1..Len(summaries) :
                            summaries[i].text =
                                items[i].author \o ": "
                                    \o substring0(items[i].body, 100) \o "..."
                      /\ Len(more) = (IF n > k THEN 1 ELSE 0)
                      /\ \A i \in 1..Len(more) : more[i].count = n - k
                      /\ \A i, j \in 1..Len(output) :
                            (/\ output[i].section = "botFeedback"
                             /\ output[i].kind = "summary"
                             /\ output[i].priority = tier
                             /\ output[j].section = "botFeedback"
                             /\ output[j].kind = "more"
                             /\ output[j].priority = tier) => i < j

\* two LOW bot items under a cap of 1: one summary and "... and 1 more"
C10_Witness ==
    /\ DualTemplate
    /\ Rendered("botFeedback")
    /\ config.filtering.maxBotItemsPerPriority = 1
    /\ Len(BotsOfTier("LOW")) = 2
    /\ Len(BotBlocks("summary", "LOW")) = 1
    /\ Len(BotBlocks("more", "LOW")) = 1
    /\ BotBlocks("more", "LOW")[1].count = 1

(***************************************************************************)
(* Human and bot feedback.                                                 *)
(***************************************************************************)
HumanSections == {"humanReviews", "humanCodeComments", "humanGeneralComments"}

IsBotUser(author) == arrayIncludes(config.filtering.botUsers, author)

\* the list kept holds only items of the fetched list all whose author
\* satisfies Of, and holds every such item or, with deduplication, one with
\* the same author and 100-character body prefix
KeepsExactly(kept, all, Of(_)) ==
    /\ \A i \in 1..Len(kept) :
          Of(kept[i].author) /\ Fetched(kept[i]) \in Range(all)
    /\ \A j \in 1..Len(all) :
          Of(all[j].author) =>
              \E i \in 1..Len(kept) :
                  IF config.filtering.enableDeduplication
                  THEN SamePair(kept[i], all[j])
                  ELSE Fetched(kept[i]) = all[j]
    /\ ~config.filtering.enableDeduplication =>
          Len(kept) = Len(SelectSeq(all, LAMBDA c : Of(c.author)))

NotBotUser(author) == ~IsBotUser(author)

\* C11: an item is bot feedback exactly if its author equals an entry of
\* config.filtering.botUsers: in each of the three groups the human list
\* holds the items of the other authors and the bot list those of the bot
\* users; the human sections print no item of a bot user, and botFeedback
\* counts and summarises items of bot users only.
C11_BotIffListedAuthor ==
    DualTemplate =>
        /\ KeepsExactly(groups.humanReviews, extractedData.reviews,
                        NotBotUser)
        /\ KeepsExactly(groups.botReviews, extractedData.reviews, IsBotUser)
        /\ KeepsExactly(groups.humanReviewComments,
                        extractedData.reviewComments, NotBotUser)
        /\ KeepsExactly(groups.botReviewComments,
                        extractedData.reviewComments, IsBotUser)
        /\ KeepsExactly(groups.humanIssueComments,
                        extractedData.issueComments, NotBotUser)
        /\ KeepsExactly(groups.botIssueComments,
                        extractedData.issueComments, IsBotUser)
        /\ \A i \in 1..Len(output) :
              /\ (output[i].section \in HumanSections
                    /\ output[i].kind = "item")
                    => ~IsBotUser(output[i].author)
              /\ (output[i].section = "botFeedback"
                    /\ output[i].kind = "summary")
                    => \E c \in Range(extractedData.reviews)
                              \cup Range(extractedData.reviewComments)
                              \cup Range(extractedData.issueComments) :
                          /\ IsBotUser(c.author)
                          /\ output[i].text = c.author \o ": "
                                \o substring0(c.body, 100) \o "..."
              /\ (output[i].section = "botFeedback"
                    /\ output[i].kind = "countHeading")
                    => output[i].count =
                          Len(groups.botReviews)
                              + Len(groups.botReviewComments)
                              + Len(groups.botIssueComments)

\* a review of dependabot[bot] and a review of Dependabot[bot] under the
\* default botUsers: the first is summarised in botFeedback, the second is
\* listed in humanReviews
C11_Witness ==
    /\ DualTemplate
    /\ ~IsBotUser(OtherCase)
    /\ \E i \in 1..Len(output) :
          /\ output[i].section = "humanReviews"
          /\ output[i].kind = "item"
          /\ output[i].author = OtherCase
    /\ \E i \in 1..Len(output) :
          /\ output[i].section = "botFeedback"
          /\ output[i].kind = "summary"
          /\ output[i].text = Bot \o ": typo..."

\* the same author as a bot user of the configuration file
C11_WitnessConfigured ==
    /\ DualTemplate
    /\ IsBotUser(OtherCase)
    /\ \E i \in 1..Len(output) :
          /\ output[i].section = "botFeedback"
          /\ output[i].kind = "summary"
          /\ output[i].text = OtherCase \o ": typo..."

(***************************************************************************)
(* Action items.                                                           *)
(***************************************************************************)
\* the items of a fetched list that remain after deduplication
Remaining(all) ==
    IF config.filtering.enableDeduplication THEN FirstOccurrences(all)
                                            ELSE all

RemainingHuman ==
    ByHuman(Remaining(extractedData.reviews))
        \o ByHuman(Remaining(extractedData.reviewComments))
        \o ByHuman(Remaining(extractedData.issueComments))

RemainingBot ==
    ByBot(Remaining(extractedData.reviews))
        \o ByBot(Remaining(extractedData.reviewComments))
        \o ByBot(Remaining(extractedData.issueComments))

CountOfTier(items, tier) ==
    Len(SelectSeq(items, LAMBDA c : detectPriority(config, c.body) = tier))

ActionBlocks(kind) ==
    SelectSeq(output, LAMBDA b : b.section = "actionItems" /\ b.kind = kind)

\* C12: actionItems is rendered exactly if a human item remains after
\* deduplication; its TOTAL line reports the number of remaining human
\* items and of remaining bot items, its URGENT and IMPORTANT lines (printed
\* for a count above 0) the number of HIGH and of MEDIUM human items.
C12_ActionItemsCounts ==
    pc = "formatted" =>
        /\ Rendered("actionItems") <=> Len(RemainingHuman) > 0
        /\ Rendered("actionItems") =>
              /\ Len(ActionBlocks("total")) = 1
              /\ ActionBlocks("total")[1].index = Len(RemainingHuman)
              /\ ActionBlocks("total")[1].count = Len(RemainingBot)
              /\ Len(ActionBlocks("urgent"))
                    = (IF CountOfTier(RemainingHuman, "HIGH") > 0
                       THEN 1 ELSE 0)
              /\ \A i \in 1..Len(ActionBlocks("urgent")) :
                    ActionBlocks("urgent")[i].count
                        = CountOfTier(RemainingHuman, "HIGH")
              /\ Len(ActionBlocks("important"))
                    = (IF CountOfTier(RemainingHuman, "MEDIUM") > 0
                       THEN 1 ELSE 0)
              /\ \A i \in 1..Len(ActionBlocks("important")) :
                    ActionBlocks("important")[i].count
                        = CountOfTier(RemainingHuman, "MEDIUM")

\* one HIGH human discussion comment and one bot item: URGENT 1, TOTAL 1
\* human + 1 bot
C12_Witness ==
    /\ DualTemplate
    /\ Len(extractedData.issueComments) = 2
    /\ Len(ActionBlocks("urgent")) = 1
    /\ ActionBlocks("urgent")[1].count = 1
    /\ ActionBlocks("total")[1].index = 1
    /\ ActionBlocks("total")[1].count = 1

\* only bot items: no actionItems section
C12_WitnessOmitted ==
    /\ DualTemplate
    /\ Len(RemainingBot) > 0
    /\ Len(RemainingHuman) = 0
    /\ ~Rendered("actionItems")

(***************************************************************************)
(* The two templates.                                                      *)
(***************************************************************************)
\* sections and lines only the simplified template writes
SimplifiedOnly(b) ==
    \/ b.section \in {"title", "description", "metadata", "comments"}
    \/ b.section = "header" /\ b.kind = "linearId"

\* sections and lines only the PR / dual template writes
DualOnly(b) ==
    \/ b.section \in {"summaryHeader", "prOverview", "linearOverview",
                      "humanReviews", "humanCodeComments",
                      "humanGeneralComments", "botFeedback", "actionItems"}
    \/ b.section = "header" /\ b.kind = "branch"
    \/ b.section \notin Range(LinearOnlyOrder)

\* C13: for a Linear issue without a PR formatOutput returns the simplified
\* template only (header, title, description, metadata, comments, rules, in
\* this order, the title always) and no line of the dual template; with a
\* PR it returns no line of the simplified template.
C13_TemplateByPresence ==
    pc = "formatted" =>
        IF extractedData.linearInfo # NullObject
              /\ extractedData.prInfo = NullObject
        THEN /\ \A i \in 1..Len(output) : ~DualOnly(output[i])
             /\ \E i \in 1..Len(output) :
                   /\ output[i].section = "title"
                   /\ output[i].text = extractedData.linearInfo.title
             /\ \A i, j \in 1..Len(output) :
                   i < j => PositionIn(LinearOnlyOrder, output[i].section)
                              <= PositionIn(LinearOnlyOrder,
                                            output[j].section)
        ELSE /\ extractedData.prInfo # NullObject
             /\ \A i \in 1..Len(output) : ~SimplifiedOnly(output[i])

\* a Linear issue alone: title, metadata and comments of the simplified
\* template
C13_Witness ==
    /\ pc = "formatted"
    /\ extractedData.linearInfo # NullObject
    /\ extractedData.prInfo = NullObject
    /\ \E i, j, k \in 1..Len(output) :
          /\ output[i].section = "title"
          /\ output[j].section = "metadata"
          /\ output[k].section = "comments"

\* a PR with its Linear issue: the dual template with both overviews
C13_WitnessDual ==
    /\ pc = "formatted"
    /\ extractedData.linearInfo # NullObject
    /\ extractedData.prInfo # NullObject
    /\ Rendered("prOverview")
    /\ Rendered("linearOverview")

(***************************************************************************)
(* Properties of loadConfig.                                               *)
(***************************************************************************)
\* the defaults a user sees: DEFAULT_CONFIG with the built-in keywords
DocumentedDefaults ==
    [InitialDefaultConfig EXCEPT
        !.priority.customKeywords = defaultPriorityKeywords]

NoDuplicates(arr) ==
    \A i, j \in 1..Len(arr) : arr[i] = arr[j] => i = j

\* merged holds the entries of first, in their order, followed by the
\* entries of second that first does not hold, each once, in the order of
\* their first occurrence
UnionInOrder(merged, first, second) ==
    /\ NoDuplicates(merged)
    /\ Range(merged) = Range(first) \cup Range(second)
    /\ Len(merged) >= Len(first)
    /\ SubSeq(merged, 1, Len(first)) = first
    /\ \A i, j \in 1..Len(second) :
          (/\ i < j
           /\ second[i] \notin Range(first)
           /\ second[j] \notin Range(first)
           /\ second[i] # second[j])
              => PositionIn(merged, second[i]) < PositionIn(merged, second[j])

\* merged agrees with the claimed merge of user over default: an unset field
\* keeps its default, a scalar takes the user's value, an array is the
\* union in order. With keywordsApart the priority keyword lists are the
\* built-in list followed by the union of the user's own entries.
RECURSIVE MergedAs(_, _, _, _)
MergedAs(default, user, merged, keywordsApart) ==
    /\ DOMAIN merged = (DOMAIN default) \cup (DOMAIN user)
    /\ \A key \in DOMAIN merged :
          IF key \notin DOMAIN user THEN merged[key] = default[key]
          ELSE IF key \in ObjectKeys
               THEN MergedAs(IF key \in DOMAIN default THEN default[key]
                                                       ELSE EmptyObject,
                             user[key], merged[key], keywordsApart)
          ELSE IF key \in Priorities /\ keywordsApart
               THEN /\ Len(merged[key]) >= Len(default[key])
                    /\ SubSeq(merged[key], 1, Len(default[key]))
                          = default[key]
                    /\ UnionInOrder(SubSeq(merged[key],
                                           Len(default[key]) + 1,
                                           Len(merged[key])),
                                    <<>>, user[key])
          ELSE IF key \in ArrayKeys
               THEN IF key \in DOMAIN default
                    THEN UnionInOrder(merged[key], default[key], user[key])
                    ELSE merged[key] = user[key]
          ELSE merged[key] = user[key]

Returned == pc = "extracted"

\* processInput has thrown
Threw == pc = "exited" /\ thrown # NULL

\* this run of processInput resolves a Linear issue or a pull request for
\* its input: the issue of a Linear ID, the pull request of a number
Resolvable ==
    IF hasUpperCase(args.input)
    THEN fetchLinearIssue(world, args.input) # NullObject
    ELSE /\ world.repoInfo
         /\ parseInt(args.input) # NaN
         /\ fetchPRData(world, [number |-> parseInt(args.input)])
                # NullObject

C14_WitnessReturned ==
    /\ Returned
    /\ extractedData.linearInfo # NullObject
    /\ extractedData.prInfo = NullObject
\* processInput has ended, with a return, a question or a throw
Resolved == pc \in {"extracted", "asking", "exited"}

\* the sub-fetches of fetchPRData other than the failing one have delivered
OtherGitHubDataPresent ==
    /\ extractedData.prInfo # NullObject
    /\ world.ghFailing # "reviews" => extractedData.reviews = WorldReviews
    /\ world.ghFailing # "comments"
          => extractedData.reviewComments = WorldReviewComments
    /\ world.ghFailing # "issueComments"
          => extractedData.issueComments = WorldIssueComments
    /\ world.ghFailing # "details"
          => extractedData.prDetails # NullObject

\* C15 (as claimed): when the pull request exists and one call of
\* fetchPRData fails, or the Linear issue exists and one of its
\* sub-resources fails, the run goes on and the data of the other calls is
\* in ExtractedData.
C15_SubFetchFailureKeepsTheRest ==
    Resolved =>
        /\ (/\ ~hasUpperCase(args.input)
            /\ parseInt(args.input) = ThePR.number
            /\ world.repoInfo /\ world.prExists
            /\ world.ghFailing # "none")
              => pc # "exited" /\ OtherGitHubDataPresent
        /\ (/\ hasUpperCase(args.input)
            /\ world.linearApiKey /\ world.linearIssue
            /\ args.input = TheLinearIssue.id
            /\ world.linearFailing # "none")
              => /\ pc # "exited"
                 /\ extractedData.linearInfo # NullObject
                 /\ extractedData.linearInfo.title = TheLinearIssue.title
\* the run may ask during resolution: it is not in quiet mode
\* (--no-clipboard-output) and the prompts are enabled
Interactive ==
    ~args.noClipboardOutput /\ config.workflow.enableInteractivePrompts

Asked(what) ==
    \E i \in 1..Len(terminal) :
        terminal[i].kind = "question" /\ terminal[i].what = what

\* C19: processInput asks for a PR number or a Linear ID only in a run that
\* is not quiet and has workflow.enableInteractivePrompts on; any other run
\* asks nothing and, when it found its issue or pull request, returns it
\* without the other one.
C19_AsksOnlyWhenInteractive ==
    pc # "start" =>
        /\ (pc = "asking" \/ question # NULL
              \/ \E i \in 1..Len(terminal) : terminal[i].kind = "question")
              => Interactive
        /\ (Resolved /\ ~Interactive /\ Resolvable) =>
              /\ Returned
              /\ terminal = <<>>
              /\ IF hasUpperCase(args.input)
                 THEN extractedData.linearInfo # NullObject
                 ELSE extractedData.prInfo # NullObject

\* an interactive run for an issue without pull request asks for the number
C19_Witness ==
    /\ Returned
    /\ Interactive
    /\ Asked("prNumber")
    /\ hasUpperCase(args.input)

\* the same issue in quiet mode: no question, the issue alone is returned
C19_WitnessQuiet ==
    /\ pc # "start"
    /\ args.noClipboardOutput
    /\ config.workflow.enableInteractivePrompts
    /\ Returned
    /\ terminal = <<>>
    /\ extractedData.linearInfo # NullObject
    /\ extractedData.prInfo = NullObject

\* a pull request whose branch names no issue, prompts disabled: no
\* question, the pull request alone is returned
C19_WitnessDisabled ==
    /\ pc # "start"
    /\ ~args.noClipboardOutput
    /\ ~config.workflow.enableInteractivePrompts
    /\ Returned
    /\ terminal = <<>>
    /\ extractedData.prInfo # NullObject
    /\ extractedData.linearInfo = NullObject


(***************************************************************************)
(* Properties of generateAISummary, of the delivery and of julesMode.      *)
(***************************************************************************)
Exited == pc = "exited"
Where(kind, what) ==
    {i \in DOMAIN terminal :
        terminal[i].kind = kind /\ terminal[i].what = what}
Copies(what) == Where("clipboard", what) \cup Where("console", what)
Events(kind) == {i \in DOMAIN terminal : terminal[i].kind = kind}
\* main ran to its delivery outside Jules mode
Reported == Exited /\ thrown = NULL /\ ~args.julesFlag
FixedWarnings == {SummaryUnavailable, SummaryEmpty, SummaryFailed}

\* C17: generateAISummary never throws and never returns an empty string:
\* without the API key, when the call of the model fails, or when the text
\* it returns is empty or missing, the summary of a run with --summary is
\* the fixed warning of that case, and the run goes on to print its report
\* (with that summary under it); a text the model returns is the summary.
C17_SummaryIsTextOrFixedWarning ==
    Reported /\ args.summaryFlag =>
        /\ summary # "" /\ summary # NULL
        /\ ~world.geminiApiKey => summary = SummaryUnavailable
        /\ world.geminiApiKey /\ world.llm = "fails"
              => summary = SummaryFailed
        /\ world.geminiApiKey /\ world.llm \in {"empty", "undefined"}
              => summary = SummaryEmpty
        /\ world.geminiApiKey /\ world.llm = "text"
              => summary = resultText(world) /\ summary \notin FixedWarnings
        /\ Where("console", "full") # {}
        /\ \E i \in Where("console", "summary") : terminal[i].text = summary
        /\ exitCode = 1 => Events("clipboardFailed") # {}

C17_Witness ==
    /\ Reported /\ args.summaryFlag
    /\ world.geminiApiKey /\ world.llm = "empty"
    /\ summary = SummaryEmpty
    /\ exitCode = 0

C17_WitnessNoKey ==
    /\ Reported /\ args.summaryFlag /\ args.noClipboardOutput
    /\ summary = SummaryUnavailable
    /\ exitCode = 0

C17_WitnessFailed ==
    /\ Reported /\ args.summaryFlag
    /\ summary = SummaryFailed
    /\ Where("clipboard", "full") # {}

WriteThrew == Events("clipboardFailed") # {}
ErrorReported == Events("error") # {}

C16_Witness ==
    /\ Exited /\ WriteThrew /\ ~args.julesFlag
    /\ config.clipboard.fallbackToConsole
    /\ exitCode = 0

C16_WitnessJules ==
    /\ Exited /\ args.julesFlag
    /\ Where("clipboard", "first") # {}
    /\ Where("clipboardFailed", "full") # {}
    /\ exitCode = 0

C16_WitnessPropagates ==
    /\ Exited /\ WriteThrew /\ ~config.clipboard.fallbackToConsole
    /\ ~args.julesFlag
    /\ exitCode = 1 /\ ErrorReported

Acknowledged(p, j) == \E e \in Events("enter") : p < e /\ e < j

\* C18: in Jules mode every delivery of the full discussion, to the
\* clipboard or to the console, comes after a delivery of the configured
\* first item, after a prompt that follows it, and after the Enter that
\* answers the last prompt before it; while a prompt is unanswered the full
\* discussion has not been delivered since that prompt, and none at all
\* before the first prompt is answered.
C18_FirstThenEnterThenFull ==
    args.julesFlag =>
        /\ \A j \in Copies("full") :
              \E i \in Copies("first"), p \in Events("prompt") :
                 /\ i < p /\ p < j
                 /\ terminal[i].text = firstCopyContent(config, extractedData)
                 /\ \A q \in Events("prompt") : q < j => Acknowledged(q, j)
        /\ Events("enter") = {} => Copies("full") = {}
        /\ pc \in {"awaitEnter", "awaitEnterFallback"} =>
              /\ Copies("first") # {}
              /\ Copies("full") = {}
        /\ Exited /\ exitCode = 0 => Copies("full") # {}

C18_Witness ==
    /\ args.julesFlag /\ Exited
    /\ Where("clipboard", "first") # {}
    /\ Where("clipboard", "full") # {}

C18_WitnessFallback ==
    /\ args.julesFlag /\ Exited
    /\ Where("clipboardFailed", "first") # {}
    /\ Where("console", "first") # {}
    /\ Where("console", "full") # {}

C18_WitnessSecondWrite ==
    /\ args.julesFlag /\ Exited
    /\ Where("clipboardFailed", "full") # {}
    /\ Cardinality(Copies("first")) = 2
    /\ Cardinality(Events("enter")) = 2
    /\ Where("console", "full") # {}

C18_WitnessTitle ==
    /\ args.julesFlag /\ Exited /\ Copies("full") # {}
    /\ config.julesMode.firstCopy = "title"
    /\ \E i \in Copies("first") : terminal[i].text = ThePRDetails.title

(***************************************************************************)
(* Properties of the julesRules section.                                   *)
(***************************************************************************)
\* the rules the julesRules section of the report lists, in order
RulesListed ==
    LET rules == SelectSeq(output, LAMBDA b :
                    b.section = "julesRules" /\ b.kind = "rule")
    IN  [i \in 1..Len(rules) |-> rules[i].text]

UserGivesCustomRules ==
    /\ "output" \in DOMAIN userConfig
    /\ "customJulesRules" \in DOMAIN userConfig.output
    /\ Len(userConfig.output.customJulesRules) > 0

\* C21: when the configuration file gives a non-empty
\* output.customJulesRules, the julesRules section of the report lists
\* exactly the custom rules of the file followed by additionalJulesRules,
\* and none of the built-in default rules.
C21_CustomRulesReplaceDefaults ==
    pc = "formatted" /\ UserGivesCustomRules /\ Rendered("julesRules") =>
        /\ RulesListed = userConfig.output.customJulesRules
                            \o config.output.additionalJulesRules
        /\ \A r \in Range(DefaultJulesRules) : r \notin Range(RulesListed)

\* what the report lists instead: the default rules, then the custom rules
\* of the file, then the additional rules
C21_DefaultsStayListed ==
    /\ pc = "formatted" /\ UserGivesCustomRules /\ Rendered("julesRules")
    /\ RulesListed = DefaultJulesRules
                        \o userConfig.output.customJulesRules
                        \o config.output.additionalJulesRules

(***************************************************************************)
(* Properties of the calls of fetchPRData.                                 *)
(***************************************************************************)
\* the positions in gh at which a call of the fan-out has ended
FanOutEnds ==
    {i \in DOMAIN gh : gh[i].kind \in {"end", "throw"}
                       /\ gh[i].what \in Range(FanOut)}

\* C22: the four calls of the fan-out (reviews, inline comments, discussion
\* comments, details) are all started before any of them has ended, and
\* the data of the pull request is stored only after all four have ended.
C22_AllStartedBeforeAnyEnds ==
    /\ \A e \in FanOutEnds : \A c \in Range(FanOut) :
          \E i \in 1..(e - 1) : gh[i] = Event("start", c)
    /\ pc = "fetched" /\ extractedData.prInfo # NullObject =>
          \A c \in Range(FanOut) : Ended(c)

\* what the calls do instead: one at a time, each started after the one
\* before it has ended
C22_OneAtATime ==
    /\ pc = "fetched" /\ extractedData.prDetails # NullObject
    /\ \A c \in Range(GhCalls) : ~Running(c)
    /\ \A k \in 2..Len(GhCalls) :
          \E i, j \in DOMAIN gh :
             /\ gh[i] = Event("end", GhCalls[k - 1])
             /\ gh[j] = Event("start", GhCalls[k])
             /\ i < j

(***************************************************************************)
(* Properties of the readline interface.                                   *)
(***************************************************************************)
\* C23: at any time at most one readline interface created by
\* createReadlineInterface exists, and it is the one rl refers to; when
\* main has returned or the process has exited, on the help path, without
\* arguments, after Jules mode, after the normal delivery and after a
\* caught error, no interface is open.
C23_OneInterfaceAlwaysClosed ==
    /\ interfaces \in {0, 1}
    /\ rl = NULL <=> interfaces = 0
    /\ pc \in {"asking", "awaitEnter", "awaitEnterFallback"} => interfaces = 1
    /\ pc = "exited" => interfaces = 0 /\ rl = NULL

\* a Jules run that asked for a pull request number and prompted for Enter
\* twice has ended with its interface closed
C23_Witness ==
    /\ pc = "exited" /\ exitCode = 0 /\ args.julesFlag
    /\ Events("question") # {}
    /\ Cardinality(Events("prompt")) = 2
    /\ interfaces = 0

C23_WitnessCaught ==
    /\ pc = "exited" /\ exitCode = 1
    /\ Events("prompt") # {}
    /\ Events("clipboardFailed") # {}
    /\ interfaces = 0

C23_WitnessHelp ==
    /\ pc = "exited" /\ exitCode = 0
    /\ args.input = "--help"
    /\ interfaces = 0

(***************************************************************************)
(* Properties of deduplicateComments.                                      *)
(***************************************************************************)
\* C24: deduplicateComments applied to its own result returns that result;
\* with enableDeduplication false it returns the list it was given.
C24_DeduplicationIdempotent ==
    /\ pc = "deduplicatedAgain" => deduped = comments
    /\ pc = "deduplicated" /\ ~config.filtering.enableDeduplication =>
          deduped = comments

\* the first call removed two of three comments, the second none
C24_Witness ==
    /\ pc = "deduplicatedAgain"
    /\ config.filtering.enableDeduplication
    /\ Len(deduped) = 1
    /\ \E l \in ListsUpTo(DedupCandidates, MaxComments) :
          /\ Len(l) = 3
          /\ deduplicateComments(config, l) = deduped

\* without deduplication a list with equal keys comes back as it was
C24_WitnessSkipped ==
    /\ pc = "deduplicated"
    /\ ~config.filtering.enableDeduplication
    /\ Len(comments) = 3
    /\ commentKey(comments[1]) = commentKey(comments[2])
    /\ deduped = comments

C26_LoadIsRepeatable ==
    pc # "start" =>
        /\ config = loadConfig(InitialDefaultConfig, userConfig)
        /\ DEFAULT_CONFIG = InitialDefaultConfig

\* without a configuration file the second load returns every built-in
\* keyword twice, and DEFAULT_CONFIG holds the built-in keywords
C26_KeywordsGrow ==
    /\ pc = "loaded" /\ loads = 1
    /\ userConfig = NoUserConfig
    /\ config.priority.customKeywords.HIGH
          = defaultPriorityKeywords.HIGH \o defaultPriorityKeywords.HIGH
    /\ DEFAULT_CONFIG.priority.customKeywords.HIGH
          = defaultPriorityKeywords.HIGH \o defaultPriorityKeywords.HIGH
    /\ InitialDefaultConfig.priority.customKeywords.HIGH = <<>>

(***************************************************************************)
(* Properties of the pull request processInput records.                    *)
(***************************************************************************)
\* C27: when processInput has returned with prInfo set, the data of that
\* pull request was fetched: prDetails is set and the three lists are the
\* ones fetchPRData returns for prInfo.
C27_RecordedPRWasFetched ==
    Returned /\ extractedData.prInfo # NullObject =>
        LET prData == fetchPRData(world, extractedData.prInfo)
        IN  /\ prData # NullObject
            /\ extractedData.prDetails = prData.prDetails
            /\ extractedData.reviews = prData.reviews
            /\ extractedData.reviewComments = prData.reviewComments
            /\ extractedData.issueComments = prData.issueComments

\* the issue AB-12 has its pull request attached and the fetch of the pull
\* request fails: prInfo is recorded without details
C27_RecordedWithoutData ==
    /\ Returned
    /\ args.input = "AB-12"
    /\ extractedData.linearInfo # NullObject
    /\ extractedData.prInfo = ThePR
    /\ extractedData.prDetails = NullObject
    /\ fetchPRData(world, ThePR) = NullObject

(***************************************************************************)
(* Properties of the totals of actionItems against the rendered sections.  *)
(***************************************************************************)
\* the human items the report shows in its three human sections
HumanItemsShown ==
    SelectSeq(output, LAMBDA b :
        b.section \in HumanSections /\ b.kind = "item")

\* the item count the heading of botFeedback shows, 0 without the section
BotItemsShown ==
    LET headings == SelectSeq(output, LAMBDA b :
                       b.section = "botFeedback" /\ b.kind = "countHeading")
    IN  IF headings = <<>> THEN 0 ELSE headings[1].count

\* C28: in a report with actionItems, the human total of its TOTAL line is
\* the number of human items the report shows in humanReviews,
\* humanCodeComments and humanGeneralComments, and its bot total is the
\* item count botFeedback shows, whatever the include toggles are.
C28_TotalsMatchRenderedItems ==
    pc = "formatted" /\ Rendered("actionItems") =>
        /\ ActionBlocks("total")[1].index = Len(HumanItemsShown)
        /\ ActionBlocks("total")[1].count = BotItemsShown

\* with includeReviews false the TOTAL line counts a review that no section
\* shows
C28_TotalCountsHiddenReviews ==
    /\ pc = "formatted" /\ Rendered("actionItems")
    /\ ~config.integrations.github.includeReviews
    /\ ~Rendered("humanReviews")
    /\ Len(groups.humanReviews) > 0
    /\ ActionBlocks("total")[1].index
          = Len(HumanItemsShown) + Len(groups.humanReviews)

(***************************************************************************)
(* Properties of the number of prompts and deliveries of julesMode.        *)
(***************************************************************************)
\* C29: a run of Jules mode that ends with status 0 has asked for Enter
\* exactly once and has delivered the first item exactly once and the full
\* discussion exactly once, to the clipboard or to the console, also after
\* a failed clipboard write with fallbackToConsole on.
C29_OnePromptOneDeliveryEach ==
    args.julesFlag /\ Exited /\ exitCode = 0 =>
        /\ Cardinality(Events("prompt")) = 1
        /\ Cardinality(Copies("first")) = 1
        /\ Cardinality(Copies("full")) = 1

\* the second write fails with the fallback on: the first item is on the
\* clipboard and again on the console, and Enter was asked for twice
C29_FirstItemTwice ==
    /\ args.julesFlag /\ Exited /\ exitCode = 0
    /\ Where("clipboardFailed", "full") # {}
    /\ Cardinality(Where("clipboard", "first")) = 1
    /\ Cardinality(Where("console", "first")) = 1
    /\ Cardinality(Events("prompt")) = 2
    /\ Cardinality(Copies("full")) = 1

(***************************************************************************)
(* Properties of the work lists of the manager.                            *)
(***************************************************************************)
NumbersOf(prs) == {prs[i].number : i \in DOMAIN prs}

\* C30: for every state of the open pull requests, no pull request is both
\* in the list of findPRsNeedingCopilotReview and in the list of
\* findPRsNeedingJulesUpdate; the first holds the pull requests whose last
\* commit is by Jules and that Copilot has not reviewed or that have
\* commits after its latest review, the second those Copilot has reviewed
\* with no commit after the latest review.
C30_WorkListsDisjoint ==
    pc = "manager" /\ manager.found = {"needingReview", "needingUpdate"} =>
        /\ NumbersOf(manager.needingReview)
              \cap NumbersOf(manager.needingUpdate) = {}
        /\ NumbersOf(manager.needingReview) =
              {manager.openPRs[i].number : i \in
                 {j \in DOMAIN manager.openPRs :
                    /\ includes(manager.openPRs[j].lastCommitAuthor,
                                "google-labs-jules")
                    /\ \/ manager.openPRs[j].copilotReviews = 0
                       \/ manager.openPRs[j].commitsAfter > 0}}
        /\ NumbersOf(manager.needingUpdate) =
              {manager.openPRs[i].number : i \in
                 {j \in DOMAIN manager.openPRs :
                    /\ manager.openPRs[j].copilotReviews > 0
                    /\ manager.openPRs[j].commitsAfter = 0}}

\* a reviewed pull request of Jules with a later commit needs a review, a
\* reviewed one without a later commit needs an update
C30_Witness ==
    /\ pc = "manager"
    /\ manager.found = {"needingReview", "needingUpdate"}
    /\ Len(manager.needingReview) = 1
    /\ Len(manager.needingUpdate) = 1
    /\ manager.needingReview[1].copilotReviewed
    /\ manager.needingReview[1].commitsAfterCopilotReview > 0

====
